---- MODULE Spec2Model ----
(***************************************************************************)
(* Composition API of ng-effects (libs/ng-effects/src/lib/connect.ts):     *)
(* the context registry, the lifecycle scheduler (an RxJS Subject with one *)
(* subscriber per hook bucket plus the scheduler's own subscriber), the    *)
(* effect runner and the invalidation engine, for one connected host.      *)
(*                                                                         *)
(* Every external trigger is synchronous, so one action is one whole       *)
(* trigger.  The order of what happens inside a trigger is kept in `log`.  *)
(***************************************************************************)
EXTENDS FiniteSets, Integers, Sequences, TLC

\* ------------------------------------------------------------------ bounds
\* external triggers and property mutations after init(), Destroy excluded
MaxSteps == 6
\* steps of SpecApi, whose steps also include API calls made by user code
ApiSteps == 2
\* steps of SpecLate, whose steps also include triggers after Destroy
LateSteps == 3
\* steps of SpecSetup, whose hosts have initializers
SetupSteps == 3
\* steps of SpecTwo, where a second context is connected and registers
TwoSteps == 3
\* steps of SpecInject: calls of inject(token, flags)
InjectSteps == 2
\* steps of SpecRead, whose effects read properties of every kind
ReadSteps == 3
\* steps of SpecWrite, whose callbacks write through the reactive view
WriteSteps == 3
\* DoCheck passes that fit on the call stack, one inside the other
MaxNesting == 3
\* steps of SpecDeco, the decorator API: render notifications and emissions
DecoSteps == 3
\* steps of SpecFault, whose callbacks misbehave
FaultSteps == 3
\* calls of SpecCtx, which calls connect, getInjector and runInContext
CtxSteps == 3

\* ------------------------------------------------------------ vocabulary
\* JS null: what a KeyValueDiffer record holds before it has seen a value
Null == -1
Props == {"a", "b"}
\* Object.getOwnPropertyDescriptor(host, p) for the other properties a
\* callback may read: "hidden" is an own data property that is not
\* enumerable, "acc" an own enumerable property defined by a getter that
\* returns this.a, "hiddenAcc" the same but not enumerable; a property
\* without a descriptor ("proto", inherited from the prototype, or "absent")
\* is not an own property
DESC ==
  [p \in Props |-> [enumerable |-> TRUE, accessor |-> FALSE]] @@
  ("hidden" :> [enumerable |-> FALSE, accessor |-> FALSE]) @@
  ("acc" :> [enumerable |-> TRUE, accessor |-> TRUE]) @@
  ("hiddenAcc" :> [enumerable |-> FALSE, accessor |-> TRUE])
OwnProperty(p) == p \in DOMAIN DESC
\* target[p]: a data property's value, a getter's result, undefined
HostGet(s, p) ==
  IF p \in Props THEN s.host[p]
  ELSE IF p \in {"acc", "hiddenAcc"} THEN s.host["a"]
  ELSE Null
\* a property holds null or one of two values: values are only compared
\* (!==), so two are enough for a property to change at every step
Vals == {Null, 0, 1}

NoCtx == "none"
Host == "host"
\* a second connected object, and the keys of the WeakMaps
Other == "other"
Contexts == {Host, Other}
\* injectors, by identity; 0 where injectorMap has no entry
Injectors == {1, 2}
HostInjector == 1
NoPhase == "none"

OnInit == "OnInit"
OnChanges == "OnChanges"
AfterViewInit == "AfterViewInit"
WhenRendered == "WhenRendered"
OnDestroy == "OnDestroy"
DoCheck == "DoCheck"
AfterViewChecked == "AfterViewChecked"

\* the six buckets connect() creates, in index order
BucketOrder == <<OnInit, OnChanges, AfterViewInit, WhenRendered, OnDestroy, DoCheck>>
Buckets == {BucketOrder[i] : i \in 1 .. Len(BucketOrder)}

\* six empty Sets, one per index
NoBuckets == [b \in Buckets |-> <<>>]

\* the no-op hook setup() adds to the OnInit bucket
Noop == 0

\* ------------------------------------------------------- user callbacks
Item(api, cb) == [api |-> api, cb |-> cb]
Cb(reads, ret, regs) ==
  [reads |-> reads, ret |-> ret, regs |-> regs, fault |-> "none", writes |-> <<>>]
\* a callback that ends by throwing ("throws"), or that returns an object
\* which is no function and has no unsubscribe, a Promise say ("invalid")
Faulty(reads, regs, fault) ==
  [reads |-> reads, ret |-> FALSE, regs |-> regs, fault |-> fault, writes |-> <<>>]
\* a callback that, after its reads, assigns host properties through the
\* reactive view: "one" assigns 1, "flip" a value other than the current one
Put(p, op) == [p |-> p, op |-> op]
Writer(reads, writes) ==
  [reads |-> reads, ret |-> TRUE, regs |-> <<>>, fault |-> "none", writes |-> writes]

\* What a callback does when it is called: the host properties it reads
\* through the reactive view (in order), whether it returns a fresh teardown
\* (a subscription) or undefined, and the effects it registers.
CB ==
  (0 :> Cb(<<>>, FALSE, <<>>)) @@
  (1 :> Cb(<<"a", "b">>, TRUE, <<>>)) @@
  (2 :> Cb(<<>>, FALSE, <<Item("watchEffect", 3)>>)) @@
  (3 :> Cb(<<"a">>, TRUE, <<>>)) @@
  (4 :> Cb(<<>>, TRUE, <<Item("watchEffect", 5)>>)) @@
  (5 :> Cb(<<>>, FALSE, <<>>)) @@
  (6 :> Cb(<<>>, FALSE, <<Item("watchEffect", 7)>>)) @@
  (7 :> Cb(<<"b">>, TRUE, <<>>)) @@
  (8 :> Cb(<<>>, TRUE, <<Item("watchEffect", 9)>>)) @@
  (9 :> Cb(<<>>, TRUE, <<>>)) @@
  (10 :> Cb(<<"a">>, TRUE, <<>>)) @@
  (11 :> Cb(<<"a">>, TRUE, <<>>)) @@
  (12 :> Cb(<<>>, FALSE, <<Item("watchEffect", 13)>>)) @@
  (13 :> Cb(<<"b">>, TRUE, <<>>)) @@
  (14 :> Cb(<<"b">>, TRUE, <<Item("effect", 15)>>)) @@
  (15 :> Cb(<<>>, TRUE, <<>>)) @@
  (16 :> Cb(<<"a">>, TRUE, <<>>)) @@
  (17 :> Cb(<<>>, TRUE, <<>>)) @@
  (18 :> Cb(<<>>, TRUE, <<>>)) @@
  (19 :> Cb(<<"b">>, TRUE, <<>>)) @@
  (20 :> Faulty(<<"a">>, <<>>, "invalid")) @@
  (21 :> Faulty(<<>>, <<>>, "throws")) @@
  (22 :> Faulty(<<>>, <<>>, "throws")) @@
  (23 :> Cb(<<"a">>, TRUE, <<>>)) @@
  (24 :> Cb(<<>>, TRUE, <<Item("effect", 22)>>)) @@
  (25 :> Cb(<<"b">>, TRUE, <<>>)) @@
  (26 :> Writer(<<"a">>, <<Put("b", "one")>>)) @@
  (27 :> Writer(<<>>, <<Put("a", "flip")>>)) @@
  (28 :> Writer(<<"b">>, <<Put("a", "one")>>)) @@
  (29 :> Cb(<<"b">>, TRUE, <<>>)) @@
  (30 :> Cb(<<"hidden", "proto", "b", "absent", "hiddenAcc">>, TRUE, <<>>)) @@
  (31 :> Cb(<<"acc">>, TRUE, <<>>))

\* what ngOnConnect registers, in order
ProgNone == <<>>
ProgCount == <<Item("watchEffect", 10)>>
ProgOrder ==
  <<Item("watchEffect", 1), Item("onChanges", 2), Item("afterViewInit", 4),
    Item("whenRendered", 6), Item("onDestroy", 8)>>
ProgTwo == <<Item("effect", 11), Item("onChanges", 12), Item("onChanges", 14)>>
Programs == {ProgNone, ProgCount, ProgOrder, ProgTwo}

\* hosts whose callbacks misbehave: an effect returning a Promise, an
\* onChanges hook that throws, an effect that throws
ProgBad == <<Item("watchEffect", 20)>>
ProgThrowHook == <<Item("watchEffect", 23), Item("onChanges", 21)>>
ProgThrowEffect == <<Item("afterViewInit", 24)>>
FaultyPrograms == {ProgBad, ProgThrowHook, ProgThrowEffect}

\* hosts whose callbacks write through the reactive view: an effect that
\* writes what another tracks, an onChanges hook that writes a new value at
\* every call, an onChanges hook that writes a fixed value and one that reads
ProgWrite == <<Item("watchEffect", 25), Item("watchEffect", 26)>>
ProgLoop == <<Item("onChanges", 27)>>
ProgSettle == <<Item("watchEffect", 26), Item("onChanges", 28), Item("onChanges", 29)>>
WriterPrograms == {ProgWrite, ProgLoop, ProgSettle}

\* hosts whose effects read properties of every kind
ProgKinds == <<Item("watchEffect", 30)>>
ProgGetter == <<Item("watchEffect", 30), Item("watchEffect", 31)>>
ReaderPrograms == {ProgKinds, ProgGetter}

\* what a subscriber's next handler throwing leads to: RxJS 6 unsubscribes
\* that subscriber and reports the error asynchronously, RxJS 7 only reports
RxVersions == {6, 7}

\* ------------------------------------------------- decorator API effects
\* EffectMetadata of an effect method: options.whenRendered, what the method
\* returns, options.bind (a property name or "none"), options.assign,
\* options.markDirty, options.detectChanges
Meta(whenRendered, returns, bind, assign, markDirty, detectChanges) ==
  [whenRendered |-> whenRendered, returns |-> returns, bind |-> bind,
   assign |-> assign, markDirty |-> markDirty, detectChanges |-> detectChanges,
   sync |-> FALSE]
\* an effect whose observable emits while it is being subscribed (of(1), a
\* BehaviorSubject)
Sync(meta) == [meta EXCEPT !.sync = TRUE]

EFF ==
  (1 :> Meta(FALSE, "void", "none", FALSE, FALSE, FALSE)) @@
  (2 :> Meta(TRUE, "teardown", "none", FALSE, FALSE, FALSE)) @@
  (3 :> Meta(FALSE, "observable", "a", FALSE, TRUE, FALSE)) @@
  (4 :> Meta(TRUE, "observable", "c", FALSE, TRUE, TRUE)) @@
  (5 :> Meta(FALSE, "observable", "none", TRUE, FALSE, TRUE)) @@
  (6 :> Meta(FALSE, "observable", "b", FALSE, FALSE, FALSE)) @@
  (7 :> Meta(TRUE, "observable", "b", FALSE, TRUE, TRUE)) @@
  (8 :> Sync(Meta(FALSE, "observable", "a", FALSE, TRUE, FALSE))) @@
  (9 :> Sync(Meta(TRUE, "observable", "b", FALSE, TRUE, FALSE)))

\* the effect methods of a host, in metadata order
NoMetas == {<<>>}
SomeMetas == {<<1, 2>>, <<3, 4, 5>>, <<2, 5, 6>>, <<7, 1, 3>>, <<8>>, <<9>>}

\* the values effects emit: the host starts with 0 in every property
Emitted == {1}
\* the partial objects an assign effect emits, as their keys in order; "c"
\* is a property the host never declared
Partials == {<<"a">>, <<"a", "c">>, <<"c", "b">>}

\* what runEffects(effectsMetadata, hostRef, ...) keeps for a host: the
\* runner's whenRendered flag, createMode, whether the subscriptions of the
\* event loop are in place, whether take(1) has let a value through, the
\* effects whose observable is subscribed and those whose teardown is kept,
\* the calls of detectChanges suspended at their await, in microtask order,
\* and whether the host's view has been destroyed
DecoNew(metas) ==
  [metas |-> metas, whenRendered |-> FALSE, createMode |-> TRUE, listening |-> FALSE,
   taken |-> FALSE, subs |-> {}, kept |-> {}, pending |-> <<>>, destroyed |-> FALSE]

\* what the host initializers (connectables) register, by initializer
INIT ==
  (1 :> <<Item("whenRendered", 18)>>) @@
  (2 :> <<Item("watchEffect", 19)>>)
NoInitializers == {<<>>}
SomeInitializers == {<<>>, <<1>>, <<1, 2>>, <<2, 1>>}

\* callbacks that user code registers from outside setup
StrayEffect == 16
StrayHook == 17

EffectApis == {"effect", "watchEffect"}
HookApis == {"onChanges", "afterViewInit", "whenRendered", "onDestroy"}

\* every effect registered as watching
WatchOfAlways(api) == TRUE

\* watchEffect tracks dependencies, effect does not
WatchOf(api) == api = "watchEffect"

HookPhase(api) ==
  CASE api = "onChanges" -> OnChanges
    [] api = "afterViewInit" -> AfterViewInit
    [] api = "whenRendered" -> WhenRendered
    [] api = "onDestroy" -> OnDestroy

\* ------------------------------------------------------------------ state
VARIABLES
  prog,          \* the host's ngOnConnect
  initializers,  \* the host's CONNECTABLE providers, in order
  stage,         \* where the framework is with the host: new, connected, live, destroyed
  steps,         \* triggers and mutations so far
  host,          \* the host's own enumerable properties
  ctx,           \* activeContext
  lifecycle,     \* the current lifecycle hook (setLifecycleHook)
  hooks,         \* hooksMap.get(host): bucket -> callbacks in insertion order
  cleanup,       \* cleanupMap.get(host): bucket -> teardowns in insertion order
  effects,       \* the module-level map of pending effects
  invalidations, \* invalidationsMap.get(host), with previousValues of each entry
  depsMap,       \* the module-level read-set
  sched,         \* the host's Subject: none (no subscriber), open, closed
  changed,       \* runScheduler's flag
  differ,        \* what the KeyValueDiffer saw at its last diff
  released,      \* run id -> how often the teardown of that run was released
  injectorMap,   \* injectorMap: context -> injector
  peers,         \* hooksMap and cleanupMap of the contexts other than host
  rxjs,          \* the RxJS the build has
  stopped,       \* buckets whose subscriber RxJS has unsubscribed
  deco,          \* the decorator API's runner for the host
  log            \* what happened, in order

vars ==
  <<prog, initializers, stage, steps, host, ctx, lifecycle, hooks, cleanup, effects,
    invalidations, depsMap, sched, changed, differ, released, injectorMap,
    peers, rxjs, stopped, deco, log>>

\* the program state as one value, so that a handler is a function on it
St ==
  [host |-> host, ctx |-> ctx, lifecycle |-> lifecycle, hooks |-> hooks,
   cleanup |-> cleanup, effects |-> effects, invalidations |-> invalidations,
   depsMap |-> depsMap, sched |-> sched, changed |-> changed, differ |-> differ,
   released |-> released, injectorMap |-> injectorMap, peers |-> peers,
   rxjs |-> rxjs, stopped |-> stopped, deco |-> deco,
   log |-> log, exc |-> "none", depth |-> 0, zone |-> TRUE]

Commit(t) ==
  /\ host' = t.host
  /\ ctx' = t.ctx
  /\ lifecycle' = t.lifecycle
  /\ hooks' = t.hooks
  /\ cleanup' = t.cleanup
  /\ effects' = t.effects
  /\ invalidations' = t.invalidations
  /\ depsMap' = t.depsMap
  /\ sched' = t.sched
  /\ changed' = t.changed
  /\ differ' = t.differ
  /\ released' = t.released
  /\ injectorMap' = t.injectorMap
  /\ peers' = t.peers
  /\ rxjs' = t.rxjs
  /\ stopped' = t.stopped
  /\ deco' = t.deco
  /\ log' = t.log

Ev(k, ph, cb, run, via, from) ==
  [k |-> k, ph |-> ph, cb |-> cb, run |-> run, via |-> via, from |-> from]

Logged(s, e) == [s EXCEPT !.log = Append(@, e)]

\* an exception leaves the handler; it is recorded where it is raised
Throw(s, name) ==
  [s EXCEPT !.exc = name, !.log = Append(@, Ev("throw", s.lifecycle, 0, 0, name, 0))]

\* Set.add and Set.delete on an insertion-ordered Set
SetAdd(seq, x) == IF \E i \in 1 .. Len(seq) : seq[i] = x THEN seq ELSE Append(seq, x)
SetDelete(seq, x) == SelectSeq(seq, LAMBDA y : y # x)

\* ------------------------------------------------------ cleanup (flush)
\* unsubscribe(teardown): a function is called, a subscription unsubscribed,
\* undefined (0) and an object without unsubscribe (below 0) are left alone
Unsubscribe(s, t, b, via) ==
  IF t <= 0 THEN s
  ELSE [s EXCEPT !.released[t] = @ + 1,
                 !.log = Append(@, Ev("release", b, 0, t, via, 0))]

RECURSIVE FlushFrom(_, _, _, _)
FlushFrom(s, ts, b, via) ==
  IF ts = <<>> THEN s
  ELSE FlushFrom(Unsubscribe(s, Head(ts), b, via), Tail(ts), b, via)

\* flush(cleanup): release every teardown of the bucket, then clear it
Flush(s, b, via) == [FlushFrom(s, s.cleanup[b], b, via) EXCEPT !.cleanup[b] = <<>>]

\* ------------------------------------------------- registration, tracking
\* addEffect: effects.set(fn, options); no context is asked for
AddEffect(s, cb, watch) ==
  IF \E i \in 1 .. Len(s.effects) : s.effects[i].cb = cb
  THEN [s EXCEPT !.effects =
          [i \in 1 .. Len(@) |-> IF @[i].cb = cb THEN [cb |-> cb, watch |-> watch] ELSE @[i]]]
  ELSE [s EXCEPT !.effects = Append(@, [cb |-> cb, watch |-> watch])]

\* addHook putting the callback at the head of its bucket
AddHookFirst(s, cb, ph) ==
  IF s.ctx = NoCtx THEN Throw(s, "NoContext")
  ELSE IF ph \in Buckets
       THEN [s EXCEPT !.hooks[ph] =
               IF \E i \in 1 .. Len(@) : @[i] = cb THEN @ ELSE <<cb>> \o @]
       ELSE s

\* addHook: hooksMap.get(getContext())?.get(lifecycle)?.add(fn)
AddHook(s, cb, ph) ==
  IF s.ctx = NoCtx THEN Throw(s, "NoContext")
  ELSE IF ph \notin Buckets \/ s.injectorMap[s.ctx] = 0 THEN s
  ELSE IF s.ctx = Host THEN [s EXCEPT !.hooks[ph] = SetAdd(@, cb)]
  ELSE [s EXCEPT !.peers[s.ctx].hooks[ph] = SetAdd(@, cb)]

Register(s, item) ==
  IF item.api \in EffectApis THEN AddEffect(s, item.cb, WatchOf(item.api))
  ELSE AddHook(s, item.cb, HookPhase(item.api))

RECURSIVE RegisterAll(_, _)
RegisterAll(s, items) ==
  IF items = <<>> \/ s.exc # "none" THEN s
  ELSE RegisterAll(Register(s, Head(items)), Tail(items))

\* the proxy's get trap: an own enumerable property is added to depsMap
ReactiveGet(s, p) ==
  IF OwnProperty(p) /\ DESC[p].enumerable THEN [s EXCEPT !.depsMap = SetAdd(@, p)] ELSE s

RECURSIVE ReadAll(_, _)
ReadAll(s, ps) == IF ps = <<>> THEN s ELSE ReadAll(ReactiveGet(s, Head(ps)), Tail(ps))

\* schedule(lifecycle, context), defined with the scheduler below
RECURSIVE Schedule(_, _)

NewValue(s, w) == IF w.op = "flip" THEN (IF s.host[w.p] = 1 THEN 0 ELSE 1) ELSE 1

\* the proxy's set trap inside a callback: Reflect.set(target, p, value),
\* then check(context), which runs a whole DoCheck pass before the callback
\* goes on; the call stack holds MaxNesting such passes and no more
BodyWrite(s, cb, w) ==
  IF s.depth >= MaxNesting
  THEN Throw(Logged(s, Ev("overflow", s.lifecycle, cb, s.depth, "write", 0)), "RangeError")
  ELSE [Schedule([s EXCEPT !.host[w.p] = NewValue(s, w),
                           !.depth = @ + 1,
                           !.log = @ \o <<Ev("mutate", w.p, cb, NewValue(s, w), "write", 0),
                                          Ev("trigger", DoCheck, cb, s.depth + 1, "write", 0)>>],
                 DoCheck)
          EXCEPT !.depth = s.depth]

RECURSIVE BodyWrites(_, _, _)
BodyWrites(s, cb, ws) ==
  IF ws = <<>> \/ s.exc # "none" THEN s
  ELSE BodyWrites(BodyWrite(s, cb, Head(ws)), cb, Tail(ws))

\* a user callback runs: its reads, its writes, then its registrations; it
\* may end by throwing
RunBody(s, cb) ==
  IF CB[cb].fault = "throws"
  THEN Throw(RegisterAll(ReadAll(s, CB[cb].reads), CB[cb].regs), "Error")
  ELSE RegisterAll(BodyWrites(ReadAll(s, CB[cb].reads), cb, CB[cb].writes), CB[cb].regs)

\* what run r of a callback returns: a teardown of its own (r), undefined
\* (0), or an object that is no teardown (-r)
Teardown(cb, r) ==
  IF CB[cb].fault = "invalid" THEN 0 - r ELSE IF CB[cb].ret THEN r ELSE 0

\* getCurrentValues(deps)
CurrentValues(s, deps) == [i \in 1 .. Len(deps) |-> HostGet(s, deps[i])]

\* ----------------------------------------------------------- effect runner
\* runEffect(context, effect, options, cleanup); `from` is the run replaced
\* when the call comes from an invalidation, 0 otherwise
\* up to the call: flushDeps(); effects.delete(effect); r names the run
RunEffectCall(s, e, b, via, from) ==
  [s EXCEPT !.depsMap = <<>>,
            !.effects = SelectSeq(@, LAMBDA x : x.cb # e.cb),
            !.released = Append(@, 0),
            !.log = Append(@, Ev("call", b, e.cb, Len(s.released) + 1, via, from))]

\* after the call: the read-set taken when watching, the invalidation entry
\* with the values it saw, the teardown added to the bucket
RunEffectEnd(s, e, b, r) ==
  LET t == Teardown(e.cb, r)
      deps == IF e.watch THEN s.depsMap ELSE <<>>
      entry == [run |-> r, cb |-> e.cb, watch |-> e.watch, deps |-> deps,
                prev |-> CurrentValues(s, deps), teardown |-> t, bucket |-> b,
                phase |-> s.lifecycle]
  IN IF s.exc # "none" THEN s
     ELSE [s EXCEPT !.depsMap = IF e.watch THEN <<>> ELSE @,
                    !.invalidations = Append(@, entry),
                    !.cleanup[b] = SetAdd(@, t)]

RunEffect(s, e, b, via, from) ==
  RunEffectEnd(RunBody(RunEffectCall(s, e, b, via, from), e.cb), e, b,
               Len(s.released) + 1)

\* runEffects: the pending map is iterated while runEffect deletes from it
\* and the callbacks add to it
RECURSIVE RunEffects(_, _)
RunEffects(s, b) ==
  IF s.effects = <<>> \/ s.exc # "none" THEN s
  ELSE RunEffects(RunEffect(s, Head(s.effects), b, "runEffects", 0), b)

\* ------------------------------------------------------------ invalidation
\* an invalidation closure that forgets unsubscribe(teardown)
InvalidateKeep(s, e) ==
  [s EXCEPT !.cleanup[e.bucket] = SetDelete(@, e.teardown),
            !.invalidations = SelectSeq(@, LAMBDA x : x.run # e.run)]

\* the invalidation closure of runEffect: drop the teardown from its bucket,
\* drop the entry, release the teardown
Invalidate(s, e) ==
  LET s1 == [s EXCEPT !.cleanup[e.bucket] = SetDelete(@, e.teardown),
                      !.invalidations = SelectSeq(@, LAMBDA x : x.run # e.run)]
  IN Unsubscribe(s1, e.teardown, e.bucket, "invalidate")

RECURSIVE InvalidateTimes(_, _, _)
InvalidateTimes(s, e, n) == IF n = 0 THEN s ELSE InvalidateTimes(Invalidate(s, e), e, n - 1)

\* the value loop without its break: one invalidate() per value that differs
MarksEach(prev, cur) == Cardinality({i \in 1 .. Len(cur) : prev[i] # cur[i]})

\* the value loop comparing nothing: every entry is invalidated
MarksAlways(prev, cur) == 1

\* how often the value loop of invalidateEffects calls invalidate() for one
\* entry: it stops at the first value that differs
Marks(prev, cur) == IF \E i \in 1 .. Len(cur) : prev[i] # cur[i] THEN 1 ELSE 0

SetPreviousValues(s, run, cur) ==
  [s EXCEPT !.invalidations =
     [i \in 1 .. Len(@) |-> IF @[i].run = run THEN [@[i] EXCEPT !.prev = cur] ELSE @[i]]]

\* a first loop that stops at the first entry it invalidates
RECURSIVE ExamineBreak(_, _, _)
ExamineBreak(s, entries, run) ==
  IF entries = <<>> THEN <<s, run>>
  ELSE IF Marks(Head(entries).prev, CurrentValues(s, Head(entries).deps)) > 0
  THEN <<Invalidate(SetPreviousValues(s, Head(entries).run,
                                      CurrentValues(s, Head(entries).deps)),
                    Head(entries)),
         run \o <<Head(entries)>>>>
  ELSE ExamineBreak(SetPreviousValues(s, Head(entries).run,
                                      CurrentValues(s, Head(entries).deps)),
                    Tail(entries), run)

\* the first loop of invalidateEffects: <<state, entries to run again>>
RECURSIVE Examine(_, _, _)
Examine(s, entries, run) ==
  IF entries = <<>> THEN <<s, run>>
  ELSE LET e == Head(entries)
           cur == CurrentValues(s, e.deps)
           s1 == SetPreviousValues(s, e.run, cur)
           n == Marks(e.prev, cur)
           again == [i \in 1 .. n |-> e]
       IN IF Len(cur) # Len(e.prev)
          THEN <<Invalidate(s1, e), run \o <<e>>>>
          ELSE Examine(InvalidateTimes(s1, e, n), Tail(entries), run \o again)

\* a second loop that hands runEffect the bucket of the current lifecycle
\* hook
RECURSIVE RunAgainCurrent(_, _)
RunAgainCurrent(s, run) ==
  IF run = <<>> THEN s
  ELSE RunAgainCurrent(RunEffect(s, [cb |-> Head(run).cb, watch |-> Head(run).watch],
                                 s.lifecycle, "invalidate", Head(run).run),
                       Tail(run))

RECURSIVE RunAgain(_, _)
RunAgain(s, run) ==
  IF run = <<>> THEN s
  ELSE LET e == Head(run)
       IN RunAgain(RunEffect(s, [cb |-> e.cb, watch |-> e.watch], e.bucket,
                             "invalidate", e.run),
                   Tail(run))

RunMarked(x) == RunAgain(x[1], x[2])

InvalidateEffects(s) == RunMarked(Examine(s, s.invalidations, <<>>))

\* ------------------------------------------------------------------ hooks
\* runInContext: setContext(context), setLifecycleHook(lifecycle)
EnterContext(s, ph) == [s EXCEPT !.ctx = Host, !.lifecycle = ph]

\* runInContext leaving activeContext and the lifecycle hook as func left them
LeaveContextKeep(s) == s

\* runInContext: setContext(), setLifecycleHook(), once func has returned
LeaveContext(s) ==
  IF s.exc # "none" THEN s ELSE [s EXCEPT !.ctx = NoCtx, !.lifecycle = NoPhase]

\* hook(): r names the run
HookCall(s, h, ph) ==
  [s EXCEPT !.released = Append(@, 0),
            !.log = Append(@, Ev("hook", ph, h, Len(s.released) + 1, "fire", 0))]

\* cleanup.add(hook()), the hook having returned
HookEnd(s, h, ph, r) ==
  IF s.exc # "none" THEN s
  ELSE [s EXCEPT !.log = Append(@, Ev("hookEnd", ph, h, r, "fire", 0)),
                 !.cleanup[ph] = SetAdd(@, Teardown(h, r))]

HookBody(s, h, ph) == HookEnd(RunBody(HookCall(s, h, ph), h), h, ph, Len(s.released) + 1)

\* a hook whose pending effects run before its body
RunHookEffectsFirst(s, h, ph) ==
  LeaveContext(HookBody(RunEffects(EnterContext(s, ph), ph), h, ph))

\* one hook of a firing: runInContext(context, lifecycle, () => {
\*   cleanup.add(hook()); runEffects(context, cleanup) })
RunHook(s, h, ph) ==
  LeaveContext(RunEffects(HookBody(EnterContext(s, ph), h, ph), ph))

RECURSIVE RunHookList(_, _, _)
RunHookList(s, hs, ph) ==
  IF hs = <<>> \/ s.exc # "none" THEN s
  ELSE RunHookList(RunHook(s, Head(hs), ph), Tail(hs), ph)

\* the subscriber runHooks adds for one bucket, on next(current)
RunHooksOf(s, ph) == RunHookList(s, s.hooks[ph], ph)

\* RxJS around a next handler: what the handler throws is caught and
\* reported asynchronously (hostReportError, reportUnhandledError), the
\* subscriber's error handler is not called; RxJS 6 unsubscribes the
\* subscriber; the context the inner runInContext left is still set
Caught(s, ph) ==
  IF s.exc = "none" THEN s
  ELSE [s EXCEPT !.exc = "none",
                 !.stopped = IF s.rxjs = 6 THEN @ \cup {ph} ELSE @,
                 !.log = Append(@, Ev("reported", ph, 0, 0, s.exc, 0))]

\* a next handler that runs the hooks without flush(cleanup)
HookSubscriberNoFlush(s, ph) ==
  IF ph \in Buckets
  THEN RunHooksOf(Logged(s, Ev("fire", ph, 0, 0, "fire", 0)), ph)
  ELSE s

\* next handlers of which AfterViewInit's also takes AfterViewChecked
HookSubscriberViewChecked(s, ph) ==
  IF ph = AfterViewChecked /\ AfterViewInit \notin s.stopped
  THEN Caught(RunHooksOf(Flush(Logged(s, Ev("fire", AfterViewInit, 0, 0, "fire", 0)),
                               AfterViewInit, "flush"),
                         AfterViewInit),
              AfterViewInit)
  ELSE IF ph \in Buckets /\ ph \notin s.stopped
  THEN Caught(RunHooksOf(Flush(Logged(s, Ev("fire", ph, 0, 0, "fire", 0)), ph, "flush"),
                         ph),
              ph)
  ELSE s

\* the next handler of the subscriber runHooks adds for bucket ph
HookSubscriber(s, ph) ==
  IF ph \in Buckets /\ ph \notin s.stopped
  THEN Caught(RunHooksOf(Flush(Logged(s, Ev("fire", ph, 0, 0, "fire", 0)), ph, "flush"),
                         ph),
              ph)
  ELSE s

\* the error handler of that subscriber: flush(cleanup); console.error(error)
HookSubscriberError(s, ph) ==
  Logged(Flush(s, ph, "error"), Ev("console.error", ph, 0, 0, "error", 0))

\* Subject.error, which would call the error handler of every bucket's
\* subscriber; nothing in connect.ts calls scheduler.error
RECURSIVE SubjectError(_, _)
SubjectError(s, bs) ==
  IF bs = <<>> THEN s ELSE SubjectError(HookSubscriberError(s, Head(bs)), Tail(bs))

RECURSIVE CompleteFrom(_, _)
CompleteFrom(s, bs) ==
  IF bs = <<>> THEN s ELSE CompleteFrom(Flush(s, Head(bs), "complete"), Tail(bs))

\* scheduler.complete() without scheduler.unsubscribe(), the Subject taken
\* to stay usable
CompleteStayOpen(s) == CompleteFrom(s, BucketOrder)

\* scheduler.unsubscribe() without scheduler.complete()
CompleteUnflushed(s) == [s EXCEPT !.sched = "closed"]

\* scheduler.complete() then scheduler.unsubscribe(): every bucket's
\* subscriber flushes on complete, then the Subject is closed
Complete(s) == [CompleteFrom(s, BucketOrder) EXCEPT !.sched = "closed"]

\* hasChanges answering true whatever the differ reports
HasChangesAlways(s) == TRUE

\* differ.diff(context) and hasChanges: a record differs from what the
\* differ saw last (null before it saw anything)
HasChanges(s) == \E p \in Props : s.host[p] # s.differ[p]

\* ---------------------------------------------------------------- scheduler
RECURSIVE SubjectNext(_, _)

\* runInContext(context, lifecycle, func): the context is cleared only when
\* func returns
RunInContextNext(s, ph) == LeaveContext(SubjectNext(EnterContext(s, ph), ph))

RECURSIVE SubjectNextTimes(_, _, _)
SubjectNextTimes(s, ph, n) ==
  IF n = 0 THEN s ELSE SubjectNextTimes(SubjectNext(s, ph), ph, n - 1)

\* a DoCheck case with next(OnChanges) inside forEachItem, once per record
\* that differs
DiffAndNextEach(s) ==
  SubjectNextTimes([s EXCEPT !.differ = s.host,
                             !.changed = @ \/ \E p \in Props : s.host[p] # s.differ[p]],
                   OnChanges,
                   Cardinality({p \in Props : s.host[p] # s.differ[p]}))

\* case LifecycleHook.DoCheck of runScheduler's subscriber
\* if (hasChanges(differ.diff(context))) { changed = true; next(OnChanges) }
DiffAndNext(s) ==
  IF HasChanges(s)
  THEN SubjectNext([s EXCEPT !.differ = s.host, !.changed = TRUE], OnChanges)
  ELSE [s EXCEPT !.differ = s.host]

\* the DoCheck case looking for changes before it invalidates
CaseDoCheckDiffFirst(s) == InvalidateEffects(DiffAndNext(s))

CaseDoCheck(s) == DiffAndNext(InvalidateEffects(s))

\* the AfterViewChecked case without changed = false
CaseAfterViewCheckedSticky(s) ==
  IF s.changed THEN RunInContextNext(s, WhenRendered) ELSE s

\* case LifecycleHook.AfterViewChecked
CaseAfterViewChecked(s) ==
  IF s.changed
  THEN RunInContextNext([s EXCEPT !.changed = FALSE], WhenRendered)
  ELSE s

\* the switch of the subscriber without its break statements
SchedulerSubscriberFallThrough(s, ph) ==
  CASE ph = DoCheck -> Complete(CaseAfterViewChecked(CaseDoCheck(s)))
    [] ph = AfterViewChecked -> Complete(CaseAfterViewChecked(s))
    [] ph = OnDestroy -> Complete(s)
    [] OTHER -> s

\* the subscriber of runScheduler
SchedulerSubscriber(s, ph) ==
  CASE ph = DoCheck -> CaseDoCheck(s)
    [] ph = AfterViewChecked -> CaseAfterViewChecked(s)
    [] ph = OnDestroy -> Complete(s)
    [] OTHER -> s

\* Subject.next: throws once unsubscribed, else every subscriber in
\* subscription order, the buckets' first and the scheduler's last
SubjectNext(s, ph) ==
  IF s.sched = "closed" THEN Throw(s, "ObjectUnsubscribed")
  ELSE IF s.sched = "none" THEN s
  ELSE SchedulerSubscriber(HookSubscriber(s, ph), ph)

\* schedule(lifecycle, context)
Schedule(s, ph) == RunInContextNext(s, ph)

\* setup(), called by init() inside runInContext(context, OnInit, ...)
\* runScheduler(): the differ is created, changed = true, the subscribers
\* are in place, schedule(OnInit)
RunScheduler(s) ==
  Schedule([s EXCEPT !.sched = "open", !.changed = TRUE,
                     !.differ = [p \in Props |-> Null]],
           OnInit)

\* reactiveFactory(context): the proxy of a context
Reactive(c) == IF c = Host THEN "reactive(host)" ELSE "reactive(other)"

\* context.ngOnConnect.call(reactive)
CallNgOnConnect(s, items) ==
  RegisterAll(Logged(s, Ev("ngOnConnect", s.lifecycle, 0, 0, Reactive(s.ctx), 0)), items)

\* for (const initializer of initializers) initializer(reactive)
RECURSIVE CallInitializers(_, _)
CallInitializers(s, inits) ==
  IF inits = <<>> \/ s.exc # "none" THEN s
  ELSE CallInitializers(
         RegisterAll(Logged(s, Ev("initializer", s.lifecycle, Head(inits), 0,
                                  Reactive(s.ctx), 0)),
                     INIT[Head(inits)]),
         Tail(inits))

\* setup calling the initializers first and ngOnConnect last, after
\* schedule(OnInit)
SetupInitializersFirst(s, items, inits) ==
  LeaveContext(CallNgOnConnect(
    RunScheduler(AddHook(CallInitializers(EnterContext(s, OnInit), inits), Noop, OnInit)),
    items))

\* setup without addHook(noop, LifecycleHook.OnInit)
SetupNoNoop(s, items, inits) ==
  LeaveContext(RunScheduler(
    CallInitializers(CallNgOnConnect(EnterContext(s, OnInit), items), inits)))

Setup(s, items, inits) ==
  LeaveContext(RunScheduler(AddHook(
    CallInitializers(CallNgOnConnect(EnterContext(s, OnInit), items), inits),
    Noop, OnInit)))

\* connect with one injector for every context
ConnectCtxOneInjector(s, c, inj) ==
  [s EXCEPT !.injectorMap = [x \in Contexts |-> inj],
            !.ctx = c,
            !.hooks = IF c = Host THEN NoBuckets ELSE @,
            !.cleanup = IF c = Host THEN NoBuckets ELSE @,
            !.peers = [x \in DOMAIN @ |->
                         IF x = c THEN [hooks |-> NoBuckets, cleanup |-> NoBuckets]
                         ELSE @[x]]]

\* connect(context, injector): the three maps get fresh entries for the
\* context, six empty Sets each for hooks and cleanup, then setContext(context)
ConnectCtx(s, c, inj) ==
  [s EXCEPT !.injectorMap[c] = inj,
            !.ctx = c,
            !.hooks = IF c = Host THEN NoBuckets ELSE @,
            !.cleanup = IF c = Host THEN NoBuckets ELSE @,
            !.peers = [x \in DOMAIN @ |->
                         IF x = c THEN [hooks |-> NoBuckets, cleanup |-> NoBuckets]
                         ELSE @[x]]]

\* getInjector(): the injector of the active context
GetInjector(s) ==
  IF s.ctx = NoCtx THEN Throw(s, "NoContext")
  ELSE IF s.injectorMap[s.ctx] = 0 THEN Throw(s, "MissingInjector")
  ELSE s

\* --------------------------------------------------- the framework's calls
Triggered(ph) == \E i \in 1 .. Len(log) : log[i].k = "trigger" /\ log[i].ph = ph

Step(t) ==
  /\ Commit(t)
  /\ steps' = steps + 1
  /\ UNCHANGED <<prog, initializers, stage>>

\* the host's field initialisers, as the log keeps them
RECURSIVE Fields(_)
Fields(ps) ==
  IF ps = {} THEN <<>>
  ELSE LET p == CHOOSE x \in ps : TRUE
       IN <<Ev("mutate", p, 0, host[p], "new", 0)>> \o Fields(ps \ {p})

\* the host's constructor: connect(this, injector)
Connect ==
  /\ stage = "new"
  /\ Commit(ConnectCtx(Logged([St EXCEPT !.log = @ \o Fields(Props)],
                               Ev("trigger", "connect", 0, 0, "ext", 0)),
                        Host, HostInjector))
  /\ stage' = "connected"
  /\ UNCHANGED <<prog, initializers, steps>>

\* ngOnInit: init(this)
InitHost ==
  /\ stage = "connected"
  /\ Commit(Setup(Logged(St, Ev("trigger", OnInit, 0, 0, "ext", 0)), prog, initializers))
  /\ stage' = "live"
  /\ UNCHANGED <<prog, initializers, steps>>

\* user code assigns a host property (not through the reactive view)
Mutate(bound) ==
  /\ stage = "live"
  /\ steps < bound
  /\ \E p \in Props : \E v \in Vals \ {Null} :
       /\ v # host[p]
       /\ Step([Logged(St, Ev("mutate", p, 0, v, "ext", 0)) EXCEPT !.host[p] = v])

\* ngDoCheck: check(this)
Check(bound) ==
  /\ stage = "live"
  /\ steps < bound
  /\ Step(Schedule(Logged(St, Ev("trigger", DoCheck, 0, 0, "ext", 0)), DoCheck))

\* ngAfterViewInit: viewInit(this), once, in the first pass
ViewInit(bound) ==
  /\ stage = "live"
  /\ steps < bound
  /\ Triggered(DoCheck)
  /\ ~Triggered(AfterViewInit)
  /\ Step(Schedule(Logged(St, Ev("trigger", AfterViewInit, 0, 0, "ext", 0)), AfterViewInit))

\* ngAfterViewChecked: viewChecked(this)
ViewChecked(bound) ==
  /\ stage = "live"
  /\ steps < bound
  /\ Triggered(AfterViewInit)
  /\ Step(Schedule(Logged(St, Ev("trigger", AfterViewChecked, 0, 0, "ext", 0)),
                   AfterViewChecked))

\* ngOnDestroy: destroy(this)
Destroy ==
  /\ stage = "live"
  /\ Commit(Schedule(Logged(St, Ev("trigger", OnDestroy, 0, 0, "ext", 0)), OnDestroy))
  /\ stage' = "destroyed"
  /\ UNCHANGED <<prog, initializers, steps>>

InitAll(programs, inits, versions, metas) ==
  /\ prog \in programs
  /\ initializers \in inits
  /\ rxjs \in versions
  /\ deco \in {DecoNew(m) : m \in metas}
  /\ stopped = {}
  /\ host \in {[p \in Props |-> v] : v \in {Null, 0}}
  /\ stage = "new"
  /\ steps = 0
  /\ ctx = NoCtx
  /\ lifecycle = NoPhase
  /\ hooks = [b \in Buckets |-> <<>>]
  /\ cleanup = [b \in Buckets |-> <<>>]
  /\ effects = <<>>
  /\ invalidations = <<>>
  /\ depsMap = <<>>
  /\ sched = "none"
  /\ changed = FALSE
  /\ differ = [p \in Props |-> Null]
  /\ released = <<>>
  /\ injectorMap = [c \in Contexts |-> 0]
  /\ peers = [c \in Contexts \ {Host} |-> [hooks |-> NoBuckets, cleanup |-> NoBuckets]]
  /\ log = <<>>

\* hosts of the composition API have no effect methods
InitFor(programs, inits, versions) == InitAll(programs, inits, versions, NoMetas)

\* with callbacks that do not throw the RxJS version makes no difference
InitOf(programs, inits) == InitFor(programs, inits, {6})

InitWith(programs) == InitOf(programs, NoInitializers)

Init == InitWith(Programs)

Next ==
  \/ Connect
  \/ InitHost
  \/ Mutate(MaxSteps)
  \/ Check(MaxSteps)
  \/ ViewInit(MaxSteps)
  \/ ViewChecked(MaxSteps)
  \/ Destroy

Spec == Init /\ [][Next]_vars

\* ------------------------------------------- the API called by user code
\* getContext(): throwMissingContextError() when activeContext is not set
GetContext(s) == IF s.ctx = NoCtx THEN Throw(s, "NoContext") ELSE s

Apis == {"inject", "reactive", "schedule"} \cup HookApis \cup EffectApis

\* one call of the composition API from user code, wherever it runs:
\* inject(token) -> getInjector(getContext()); onChanges(fn) ... -> addHook;
\* effect(fn), watchEffect(fn) -> addEffect; reactiveFactory(source);
\* schedule(lifecycle) with its context defaulting to getContext()
Api(s, api) ==
  CASE api = "inject" -> GetContext(s)
    [] api = "reactive" -> GetContext(s)
    [] api = "schedule" ->
         IF GetContext(s).exc # "none" THEN GetContext(s) ELSE Schedule(s, DoCheck)
    [] api \in HookApis -> AddHook(s, StrayHook, HookPhase(api))
    [] api \in EffectApis -> AddEffect(s, StrayEffect, WatchOf(api))

ApiCall(bound) ==
  /\ steps < bound
  /\ \E api \in Apis : Step(Api(Logged(St, Ev("api", api, 0, 0, "ext", 0)), api))

NextApi ==
  \/ Connect
  \/ InitHost
  \/ ApiCall(ApiSteps)
  \/ Check(ApiSteps)
  \/ Destroy

InitApi == InitWith({ProgNone, ProgCount})

SpecApi == InitApi /\ [][NextApi]_vars

\* --------------------------------------------- triggers after ngOnDestroy
Phases == Buckets \cup {AfterViewChecked}

\* schedule(lifecycle, context) called for a host that was destroyed
Late(bound) ==
  /\ stage = "destroyed"
  /\ steps < bound
  /\ \E ph \in Phases :
       Step(Schedule(Logged(St, Ev("trigger", ph, 0, 0, "ext", 0)), ph))

\* a set trap that calls check(context) before Reflect.set
SetTrapCheckFirst(s, p, v) ==
  [Schedule(Logged(Logged(s, Ev("mutate", p, 0, v, "ext", 0)),
                   Ev("trigger", DoCheck, 0, 0, "set", 0)),
            DoCheck)
   EXCEPT !.host[p] = v]

\* the proxy's set trap: Reflect.set(target, p, value), then check(context)
SetTrap(s, p, v) ==
  Schedule([Logged(Logged(s, Ev("mutate", p, 0, v, "ext", 0)),
                   Ev("trigger", DoCheck, 0, 0, "set", 0))
              EXCEPT !.host[p] = v],
           DoCheck)

\* user code assigns a host property through the reactive view, be the
\* value new or not
ReactiveSet(bound) ==
  /\ stage \in {"live", "destroyed"}
  /\ steps < bound
  /\ \E p \in Props : \E v \in Vals \ {Null} : Step(SetTrap(St, p, v))

NextLate ==
  \/ Connect
  \/ InitHost
  \/ Check(LateSteps)
  \/ ReactiveSet(LateSteps)
  \/ Destroy
  \/ Late(LateSteps)

SpecLate == Init /\ [][NextLate]_vars

\* ------------------------------------------- hosts with initializers
NextSetup ==
  \/ Connect
  \/ InitHost
  \/ Mutate(SetupSteps)
  \/ Check(SetupSteps)
  \/ ViewInit(SetupSteps)
  \/ ViewChecked(SetupSteps)
  \/ Destroy

InitSetup == InitOf({ProgNone, ProgCount, ProgOrder}, SomeInitializers)

SpecSetup == InitSetup /\ [][NextSetup]_vars

\* ------------------------------- callbacks that write through the view
NextWrite ==
  \/ Connect
  \/ InitHost
  \/ Mutate(WriteSteps)
  \/ Check(WriteSteps)
  \/ Destroy

InitWrite == InitWith(WriterPrograms)

SpecWrite == InitWrite /\ [][NextWrite]_vars

\* ------------------------------------- effects reading every property kind
NextRead ==
  \/ Connect
  \/ InitHost
  \/ Mutate(ReadSteps)
  \/ Check(ReadSteps)
  \/ Destroy

InitRead == InitWith(ReaderPrograms)

SpecRead == InitRead /\ [][NextRead]_vars

\* ------------------------------------------- a second connected context
\* connect(other, injector), in the constructor of another component
ConnectOther ==
  /\ injectorMap[Other] = 0
  /\ Commit(ConnectCtx(Logged(St, Ev("connect", NoPhase, 0, 2, Other, 0)), Other, 2))
  /\ UNCHANGED <<prog, initializers, stage, steps>>

\* effect(fn) or watchEffect(fn) called by user code while a context is
\* active (connect leaves it active); who was active is recorded
RegisterEffect(bound) ==
  /\ steps < bound
  /\ ctx # NoCtx
  /\ \E api \in EffectApis :
       Step(AddEffect(Logged(St, Ev("register", api, StrayEffect, 0, ctx, 0)),
                      StrayEffect, WatchOf(api)))

NextTwo ==
  \/ Connect
  \/ ConnectOther
  \/ RegisterEffect(TwoSteps)
  \/ InitHost
  \/ Mutate(TwoSteps)
  \/ Check(TwoSteps)
  \/ Destroy

InitTwo == InitWith({ProgNone, ProgCount})

SpecTwo == InitTwo /\ [][NextTwo]_vars

\* ------------------------------------------------ inject(token, flags)
\* InjectFlags: bit sets of Optional, Self and SkipSelf; Default is empty
Default == {}
InjectFlags == {Default, {"Optional"}, {"Self"}, {"SkipSelf"},
                {"Optional", "Self"}, {"Optional", "SkipSelf"}}
FlagName(f) ==
  CASE f = Default -> "Default"
    [] f = {"Optional"} -> "Optional"
    [] f = {"Self"} -> "Self"
    [] f = {"SkipSelf"} -> "SkipSelf"
    [] f = {"Optional", "Self"} -> "Optional|Self"
    [] f = {"Optional", "SkipSelf"} -> "Optional|SkipSelf"

\* who provides the token: the value the host's own node provides and the
\* value its ancestors provide (0: none); two providers may hand out the
\* same value (useValue, useExisting)
Provided == 0 .. 2
Instance(v) == IF v = 1 THEN "v1" ELSE "v2"

\* injector.get(token, notFoundValue) of a node injector: the node's own
\* providers, then its ancestors', then notFoundValue, and an error when
\* that is undefined
NodeGet(own, par, notFound) ==
  IF own # 0 THEN Instance(own)
  ELSE IF par # 0 THEN Instance(par)
  ELSE IF notFound = "undefined" THEN "NoProvider" ELSE notFound

\* the value inject returns, or the error it throws
InjectValue(own, par, hasParent, f) ==
  LET optional == IF "Optional" \in f THEN "null" ELSE "undefined"
      current == NodeGet(own, par, "null")
      parentExists == IF hasParent THEN NodeGet(par, 0, "null") ELSE "null"
  IN IF f # Default /\ "SkipSelf" \in f /\ hasParent
       THEN NodeGet(par, 0, optional)
     ELSE IF f # Default /\ "Self" \in f
       THEN IF optional = "null" /\ parentExists = current THEN "null"
            ELSE IF parentExists = "null" \/ parentExists # current THEN current
            ELSE "NoProvider"
     ELSE NodeGet(own, par, "undefined")

\* inject(token, flags): getInjector() first, then the value or the error
Inject(s, own, par, hasParent, f) ==
  IF GetInjector(s).exc # "none" THEN GetInjector(s)
  ELSE IF InjectValue(own, par, hasParent, f) = "NoProvider"
  THEN Throw(Logged(s, Ev("inject", FlagName(f), own, par, "NoProvider",
                          IF hasParent THEN 1 ELSE 0)), "NoProvider")
  ELSE Logged(s, Ev("inject", FlagName(f), own, par,
                    InjectValue(own, par, hasParent, f), IF hasParent THEN 1 ELSE 0))

\* user code calls inject for a token, in some tree of providers
InjectCall(bound) ==
  /\ steps < bound
  /\ \E own, par \in Provided : \E hasParent \in BOOLEAN : \E f \in InjectFlags :
       /\ hasParent \/ par = 0
       /\ Step(Inject(Logged(St, Ev("api", "inject", 0, 0, "ext", 0)),
                      own, par, hasParent, f))

NextInject ==
  \/ Connect
  \/ InitHost
  \/ InjectCall(InjectSteps)

InitInject == InitWith({ProgNone})

SpecInject == InitInject /\ [][NextInject]_vars

\* ------------------------------------------- the decorator API's runner
\* assertPropertyExists(prop, context): the host declared or initialised it
PropertyExists(s, p) == p \in DOMAIN s.host

\* context[prop] = value without assertPropertyExists
WriteUnchecked(s, e, p, v) ==
  [s EXCEPT !.log = Append(@, Ev("mutate", p, e, v, "bind", 0)),
            !.host = (p :> v) @@ @]

\* assertPropertyExists(prop, context); context[prop] = value
Write(s, e, p, v) ==
  IF ~PropertyExists(s, p) THEN Throw(s, "MissingProperty")
  ELSE [s EXCEPT !.host[p] = v,
                 !.log = Append(@, Ev("mutate", p, e, v, "bind", 0))]

\* for (const prop of Object.keys(value)) { assert; context[prop] = value[prop] }
RECURSIVE WriteAll(_, _, _, _)
WriteAll(s, e, ps, v) ==
  IF ps = <<>> \/ s.exc # "none" THEN s
  ELSE WriteAll(Write(s, e, Head(ps), v), e, Tail(ps), v)

\* viewRenderer.markDirty(hostRef.context, changeDetector), for the branch
\* logged at position at: the view is marked unless it has been destroyed
ViewRendererMarkDirty(s, e, at) ==
  Logged(s, Ev("viewRenderer.markDirty", NoPhase, e, at,
               IF s.deco.destroyed THEN "dropped" ELSE "marked", 0))

\* a markDirty branch that awaits whatever the mode and the zone
MarkDirtyBranchAwaits(s, e, zone) ==
  [s EXCEPT !.log = Append(@, Ev("markDirty", NoPhase, e,
                                 IF s.deco.createMode THEN 1 ELSE 0, "microtask",
                                 IF zone THEN 1 ELSE 0)),
            !.deco.pending = Append(@, [e |-> e, at |-> Len(s.log) + 1])]

\* the markDirty branch of detectChanges: in create mode or outside the
\* Angular zone the call is suspended at await Promise.resolve(), else
\* viewRenderer.markDirty is called at once; the log keeps createMode (run)
\* and isInAngularZone() (from)
MarkDirtyBranch(s, e, zone) ==
  IF s.deco.createMode \/ ~zone
  THEN [s EXCEPT !.log = Append(@, Ev("markDirty", NoPhase, e,
                                      IF s.deco.createMode THEN 1 ELSE 0, "microtask",
                                      IF zone THEN 1 ELSE 0)),
                 !.deco.pending = Append(@, [e |-> e, at |-> Len(s.log) + 1])]
  ELSE ViewRendererMarkDirty(
         Logged(s, Ev("markDirty", NoPhase, e, 0, "now", 1)), e, Len(s.log) + 1)

\* detectChanges with the two options looked at in the other order
DecoDetectChangesDirtyFirst(s, e, zone) ==
  IF EFF[e].markDirty THEN MarkDirtyBranch(s, e, zone)
  ELSE IF EFF[e].detectChanges
  THEN Logged(s, Ev("detectChanges", NoPhase, e, 0, "now", 0))
  ELSE s

\* the detectChanges function subscribed to changeNotifier, called with the
\* options of the effect that emitted: viewRenderer.detectChanges at once, or
\* else the markDirty branch
DecoDetectChanges(s, e, zone) ==
  IF EFF[e].detectChanges
  THEN Logged(s, Ev("detectChanges", NoPhase, e, 0, "now", 0))
  ELSE IF EFF[e].markDirty THEN MarkDirtyBranch(s, e, zone)
  ELSE s

\* notifier.next(options), unless the handler has thrown
NotifierNext(s, e, zone) == IF s.exc # "none" THEN s ELSE DecoDetectChanges(s, e, zone)

\* RxJS around the next handler of an effect's subscription, as in Caught
DecoCaught(s, e) ==
  IF s.exc = "none" THEN s
  ELSE [s EXCEPT !.exc = "none",
                 !.deco.subs = IF s.rxjs = 6 THEN @ \ {e} ELSE @,
                 !.log = Append(@, Ev("reported", NoPhase, e, 0, s.exc, 0))]

\* the next handler of an effect's subscription: the value is assigned or
\* bound, then the notifier is told
EffectNext(s, e, ps, v, zone) ==
  DecoCaught(
    NotifierNext(
      IF EFF[e].assign THEN WriteAll(s, e, ps, v)
      ELSE IF EFF[e].bind # "none" THEN Write(s, e, EFF[e].bind, v)
      ELSE s,
      e, zone),
    e)

\* returnValue.subscribe({ next, error }): an observable that emits while
\* it is subscribed has its value handled before subscribe returns
Subscribed(s, e) ==
  IF EFF[e].sync
  THEN EffectNext(Logged(s, Ev("trigger", "emitSync", e, 1, "subscribe", 0)),
                  e, <<"a">>, 1, s.zone)
  ELSE s

\* runEffect of internals/run-effects.ts: the method is called; an
\* observable is subscribed and the subscription kept, a teardown kept;
\* `at` tells the log which call of the runner this is
DecoRunEffect(s, e, at) ==
  IF EFF[e].returns = "observable"
  THEN Subscribed([s EXCEPT !.log = Append(@, Ev("effect", at, e, 0, EFF[e].returns, 0)),
                            !.deco.subs = @ \cup {e}],
                  e)
  ELSE [s EXCEPT !.log = Append(@, Ev("effect", at, e, 0, EFF[e].returns, 0)),
                 !.deco.kept = IF EFF[e].returns = "teardown" THEN @ \cup {e} ELSE @]

RECURSIVE DecoRunAll(_, _, _)
DecoRunAll(s, ms, at) ==
  IF ms = <<>> THEN s
  ELSE DecoRunAll(IF EFF[Head(ms)].whenRendered = s.deco.whenRendered
                  THEN DecoRunEffect(s, Head(ms), at) ELSE s,
                  Tail(ms), at)

\* a runner that never sets its whenRendered flag
EffectRunnerNoFlag(s, at) == DecoRunAll(s, s.deco.metas, at)

\* the closure effectRunner returns: the effects whose options.whenRendered
\* equals the flag are run, then the flag is set
EffectRunner(s, at) ==
  [DecoRunAll(s, s.deco.metas, at) EXCEPT !.deco.whenRendered = TRUE]

\* runEffects(effectsMetadata, hostRef, ...): the event loop is subscribed,
\* the runner is called, createMode ends
DecoRunEffects(s) ==
  [EffectRunner([s EXCEPT !.deco.listening = TRUE], "connect")
     EXCEPT !.deco.createMode = FALSE]

\* viewRenderer.whenRendered() emits: rendered = whenRendered().pipe(take(1))
\* hands the first value to the runner and completes
RenderedNext(s) ==
  IF s.deco.listening /\ ~s.deco.taken
  THEN EffectRunner([s EXCEPT !.deco.taken = TRUE], "rendered")
  ELSE s

\* a destroyObserver that leaves the effects' subscriptions open
DecoDestroyedOpen(s) ==
  [s EXCEPT !.deco.listening = FALSE, !.deco.kept = {}, !.deco.destroyed = TRUE]

\* destroyObserver: every subscription and teardown it was given is
\* released when the host's view is destroyed
DecoDestroyed(s) ==
  [s EXCEPT !.deco.listening = FALSE, !.deco.subs = {}, !.deco.kept = {},
            !.deco.destroyed = TRUE]

\* the continuation of the oldest suspended detectChanges call
Resumed(s) ==
  ViewRendererMarkDirty([s EXCEPT !.deco.pending = Tail(@)],
                        Head(s.deco.pending).e, Head(s.deco.pending).at)

\* connect(this) of the decorator API, when the component is created
DecoConnect ==
  /\ stage = "new"
  /\ \E zone \in BOOLEAN :
       Commit(DecoRunEffects(Logged([St EXCEPT !.zone = zone],
                                    Ev("trigger", "connect", 0, 0, "ext", 0))))
  /\ stage' = "live"
  /\ UNCHANGED <<prog, initializers, steps>>

\* the view renderer tells that a render has ended
Render(bound) ==
  /\ stage \in {"live", "destroyed"}
  /\ steps < bound
  /\ \E zone \in BOOLEAN :
       Step(RenderedNext(Logged([St EXCEPT !.zone = zone],
                                Ev("trigger", "rendered", 0, 0, "ext", 0))))

\* the observable an effect returned emits
Emit(bound) ==
  /\ steps < bound
  /\ \E e \in deco.subs : \E ps \in Partials : \E v \in Emitted : \E zone \in BOOLEAN :
       /\ EFF[e].assign \/ ps = <<"a">>
       /\ Step(EffectNext(Logged(St, Ev("trigger", "emit", e, v, "ext",
                                        IF \E n \in 1 .. Len(ps) : ps[n] \notin Props
                                        THEN 1 ELSE 0)),
                          e, ps, v, zone))

\* the component is destroyed
DecoDestroy ==
  /\ stage = "live"
  /\ Commit(DecoDestroyed(Logged(St, Ev("trigger", OnDestroy, 0, 0, "ext", 0))))
  /\ stage' = "destroyed"
  /\ UNCHANGED <<prog, initializers, steps>>

\* the microtask queue runs its oldest job
Microtask ==
  /\ deco.pending # <<>>
  /\ Commit(Resumed(Logged(St, Ev("trigger", "microtask", 0, 0, "ext", 0))))
  /\ UNCHANGED <<prog, initializers, stage, steps>>

NextDeco ==
  \/ DecoConnect
  \/ Render(DecoSteps)
  \/ Emit(DecoSteps)
  \/ Microtask
  \/ DecoDestroy

InitDeco ==
  /\ InitAll({ProgNone}, NoInitializers, RxVersions, SomeMetas)
  /\ \A p \in Props : host[p] = 0

SpecDeco == InitDeco /\ [][NextDeco]_vars

\* ------------------------------------------- callbacks that misbehave
NextFault ==
  \/ Connect
  \/ InitHost
  \/ Mutate(FaultSteps)
  \/ Check(FaultSteps)
  \/ ViewInit(FaultSteps)
  \/ ViewChecked(FaultSteps)
  \/ Destroy

InitFault == InitFor(FaultyPrograms, NoInitializers, RxVersions)

SpecFault == InitFault /\ [][NextFault]_vars

\* ------------------------------------------- runInContext on its own
InnerCall(c, ph, f) == [c |-> c, ph |-> ph, f |-> f]
Fn(ret, does, inner) == [ret |-> ret, does |-> does, inner |-> inner]

\* The functions handed to runInContext: the value a function computes
\* itself, what it does first (it registers a hook, throws, or asks for the
\* injector, which it then adds to its value), and the runInContext calls
\* its body then makes (as schedule's func does through the subscribers).
\* A function returns its own value plus what its inner calls returned.
FN ==
  (1 :> Fn(1, "addHook", <<>>)) @@
  (2 :> Fn(2, "none", <<InnerCall(Other, OnChanges, 1)>>)) @@
  (3 :> Fn(0, "none", <<InnerCall(Host, NoPhase, 2), InnerCall(Host, OnInit, 1)>>)) @@
  (4 :> Fn(1, "throw", <<>>)) @@
  (5 :> Fn(0, "getInjector", <<>>))

CtxPhases == {NoPhase, OnChanges}

\* a state and the value the call that produced it returned
Res(st, val) == [st |-> st, val |-> val]

\* setContext(context); setLifecycleHook(lifecycle)
SetContext(s, c, ph) == [s EXCEPT !.ctx = c, !.lifecycle = ph]

RECURSIVE RunInContext(_, _, _, _)
RECURSIVE RunInner(_, _)
\* the inner calls of a function's body, their results added up
RunInner(r, calls) ==
  IF calls = <<>> \/ r.st.exc # "none"
  THEN r
  ELSE LET q == RunInContext(r.st, Head(calls).c, Head(calls).ph, Head(calls).f)
       IN RunInner(Res(q.st, r.val + q.val), Tail(calls))

\* func(): what the function sees of the context when it starts and when it
\* ends is recorded
Does(s, f) ==
  CASE FN[f].does = "none" -> Res(s, FN[f].ret)
    [] FN[f].does = "throw" -> Res(Throw(s, "Error"), 0)
    [] FN[f].does = "addHook" -> Res(AddHook(s, StrayHook, OnChanges), FN[f].ret)
    [] FN[f].does = "getInjector" ->
         IF GetInjector(s).exc # "none" THEN Res(GetInjector(s), 0)
         ELSE Res(Logged(s, Ev("injector", s.lifecycle, f, s.injectorMap[s.ctx], s.ctx, 0)),
                  FN[f].ret + s.injectorMap[s.ctx])

CallFn(s, f) ==
  LET r == RunInner(Does(Logged(s, Ev("enter", s.lifecycle, f, 0, s.ctx, 0)), f),
                    FN[f].inner)
  IN IF r.st.exc # "none" THEN r
     ELSE Res(Logged(r.st, Ev("leave", r.st.lifecycle, f, r.val, r.st.ctx, 0)), r.val)

\* what runInContext hands back, with the context its caller then finds
Returned(s, f, val) ==
  IF s.exc # "none" THEN Res(s, 0)
  ELSE Res(Logged(s, Ev("return", s.lifecycle, f, val, s.ctx, 0)), val)

\* runInContext(context, lifecycle, func)
RunInContext(s, c, ph, f) ==
  LET r == CallFn(SetContext(Logged(s, Ev("runInContext", ph, f, 0, c, 0)), c, ph), f)
  IN Returned(LeaveContext(r.st), f, r.val)

RunIn(bound) ==
  /\ steps < bound
  /\ \E c \in Contexts : \E ph \in CtxPhases : \E f \in DOMAIN FN :
       Step(RunInContext(St, c, ph, f).st)

\* connect(context, injector), for either context and again for a context
\* that is connected
ConnectTo(bound) ==
  /\ steps < bound
  /\ \E c \in Contexts : \E inj \in Injectors :
       Step(ConnectCtx(Logged(St, Ev("connect", NoPhase, 0, inj, c, 0)), c, inj))

NextCtx ==
  \/ ConnectTo(CtxSteps)
  \/ RunIn(CtxSteps)

InitCtx == InitWith({ProgNone}) /\ \A p \in Props : host[p] = Null

SpecCtx == InitCtx /\ [][NextCtx]_vars

\* ------------------------------------------------------ reading the log
Idx == 1 .. Len(log)
Max(S) == CHOOSE x \in S : \A y \in S : y <= x
Min(S) == CHOOSE x \in S : \A y \in S : x <= y
Range(f) == {f[i] : i \in DOMAIN f}

\* a user callback was called (the no-op hook is not one)
IsCall(e) == e.k \in {"hook", "call"} /\ e.cb # Noop
Calls(cb) == Cardinality({i \in Idx : IsCall(log[i]) /\ log[i].cb = cb})
CallSeq ==
  LET es == SelectSeq(log, IsCall)
  IN [i \in 1 .. Len(es) |-> es[i].cb]

\* the external events, by name
ExtName(e) == IF e.k = "mutate" THEN "mutate" ELSE e.ph
ExtSeq ==
  LET es == SelectSeq(log, LAMBDA e : e.via = "ext")
  IN [i \in 1 .. Len(es) |-> ExtName(es[i])]
IsPrefix(a, b) == Len(a) <= Len(b) /\ \A i \in 1 .. Len(a) : a[i] = b[i]

\* the last external event and what it caused
ExtIdx == {i \in Idx : log[i].via = "ext"}
RECURSIVE LastExtFrom(_)
LastExtFrom(i) ==
  IF i = 0 THEN 0 ELSE IF log[i].via = "ext" THEN i ELSE LastExtFrom(i - 1)
LastExt == LastExtFrom(Len(log))
LastSeg == IF LastExt = 0 THEN {} ELSE LastExt .. Len(log)
LastIs(ph) == LastExt > 0 /\ log[LastExt].k = "trigger" /\ log[LastExt].ph = ph

\* the value of host property p just before log position i
ValAt(p, i) ==
  LET ms == {j \in 1 .. (i - 1) : log[j].k = "mutate" /\ log[j].ph = p}
  IN IF ms = {} THEN Null ELSE log[Max(ms)].run

Checks == {i \in Idx : log[i].k = "trigger" /\ log[i].ph = DoCheck}
PrevCheck(c) ==
  LET cs == {i \in Checks : i < c}
  IN IF cs = {} THEN 0 ELSE Max(cs)

\* some host property differs, at the ChangeCheck at c, from what it was at
\* the ChangeCheck before (from null at the first)
Detected(c) ==
  \E p \in Props :
    ValAt(p, c) # (IF PrevCheck(c) = 0 THEN Null ELSE ValAt(p, PrevCheck(c)))

AllItems ==
  UNION {Range(P) : P \in Programs \cup FaultyPrograms} \cup UNION {Range(CB[c].regs) : c \in DOMAIN CB}
    \cup UNION {Range(INIT[n]) : n \in DOMAIN INIT}

\* the properties an effect callback tracks: those it reads, when it was
\* registered with watchEffect
TrackedOf ==
  [cb \in DOMAIN CB |->
     IF \E it \in AllItems : it.cb = cb /\ it.api = "watchEffect"
     THEN Range(CB[cb].reads) ELSE {}]
Tracked(cb) == TrackedOf[cb]

\* effect runs (positions of their call events) that still have their
\* Invalidation Entry at position c
EffectRuns(c) ==
  LET calls == {q \in 1 .. (c - 1) : log[q].k = "call"}
      replaced == {log[q].from : q \in calls}
  IN {q \in calls : Tracked(log[q].cb) # {} /\ log[q].run \notin replaced}

\* a tracked value differs, at the ChangeCheck at c, from the snapshot of the
\* run called at q: the values at the previous ChangeCheck or, if later, at q
ChangedSince(q, c) ==
  LET at == Max({q, PrevCheck(c)})
  IN \E p \in Tracked(log[q].cb) : ValAt(p, c) # ValAt(p, at)

RerunsOf(r) == {i \in LastSeg : log[i].k = "call" /\ log[i].from = r}
ReleasesOf(r) == {i \in LastSeg : log[i].k = "release" /\ log[i].run = r}

RECURSIVE Sum(_)
Sum(seq) == IF seq = <<>> THEN 0 ELSE Head(seq) + Sum(Tail(seq))

\* the runs whose callback returned a teardown
Artifacts ==
  {r \in 1 .. Len(released) :
     \E i \in Idx : log[i].k \in {"hook", "call"} /\ log[i].run = r /\ CB[log[i].cb].ret}

\* ================================================================= claims

\* C1: once the Destroy trigger has returned, every OnDestroy hook has run
\* exactly once and every teardown ever put in a Cleanup Bucket has been
\* released exactly once.
C1_DestroyReleasesEachOnce ==
  stage = "destroyed" =>
    /\ \A it \in Range(prog) : it.api = "onDestroy" => Calls(it.cb) = 1
    /\ \A r \in Artifacts : released[r] = 1

\* C2: in the invalidation pass of a ChangeCheck, every effect run whose
\* tracked values differ from its snapshot is run again exactly once, and its
\* teardown is released (once, by the invalidation) before the callback is
\* called again.
C2_ChangedEffectRerunOnce ==
  LastIs(DoCheck) =>
    \A q \in {x \in EffectRuns(LastExt) : ChangedSince(x, LastExt)} :
        LET r == log[q].run
        IN /\ Cardinality(RerunsOf(r)) = 1
           /\ \A i \in RerunsOf(r) : log[i].cb = log[q].cb
           /\ CB[log[q].cb].ret =>
                /\ Cardinality({j \in ReleasesOf(r) : log[j].via = "invalidate"}) = 1
                /\ \A i \in RerunsOf(r) : \E j \in ReleasesOf(r) : j < i

\* an effect run with two tracked properties, both changed, was run again
C2_Witness ==
  /\ LastIs(DoCheck)
  /\ \E q \in EffectRuns(LastExt) :
       /\ Cardinality(Tracked(log[q].cb)) = 2
       /\ \A p \in Tracked(log[q].cb) : ValAt(p, LastExt) # ValAt(p, Max({q, PrevCheck(LastExt)}))
       /\ RerunsOf(log[q].run) # {}

\* the effect runs C3 is about, at the second of two consecutive ChangeChecks:
\* those that existed at the first and whose tracked values are what they
\* were then
UnchangedRuns ==
  LET c == LastExt
      c0 == PrevCheck(c)
  IN IF LastIs(DoCheck) /\ c0 > 0
     THEN LET next == Min({x \in ExtIdx : c0 < x})
          IN {q \in EffectRuns(c) : q < next /\ ~ChangedSince(q, c)}
     ELSE {}

\* C3 as claimed: the second ChangeCheck neither runs such an effect again
\* nor releases the teardown of its last run.
C3_UnchangedUntouched ==
  \A q \in UnchangedRuns : RerunsOf(log[q].run) = {} /\ ReleasesOf(log[q].run) = {}

\* C3 as amended: the invalidation of the second ChangeCheck neither runs
\* such an effect again nor releases its teardown; the pass releases the
\* teardown only when it detects a change of some host property and the
\* effect belongs to the InputsChanged bucket, which is then flushed.
C3_UnchangedNotInvalidated ==
  LET detected == Detected(LastExt)
  IN \A q \in UnchangedRuns :
       /\ RerunsOf(log[q].run) = {}
       /\ \A j \in ReleasesOf(log[q].run) :
            log[j].via = "flush" /\ log[q].ph = OnChanges /\ detected

\* an unchanged effect run outside the InputsChanged bucket went through a
\* ChangeCheck that detected a change of another property
C3_Witness ==
  \E q \in UnchangedRuns :
    /\ CB[log[q].cb].ret
    /\ Detected(LastExt)
    /\ ReleasesOf(log[q].run) = {}

\* C4: one tracked effect registered in setup, reading one property: after
\* Destroy its callback was called once plus once per ChangeCheck at which
\* the property differed from the value the previous run saw, and there are
\* as many releases as calls.
C4_CallsAndReleases ==
  (prog = ProgCount /\ stage = "destroyed") =>
    LET prevCall(c) == Max({i \in 1 .. (c - 1) : IsCall(log[i]) /\ log[i].cb = 10})
        changes == {c \in Checks : ValAt("a", c) # ValAt("a", prevCall(c))}
    IN /\ Calls(10) = 1 + Cardinality(changes)
       /\ Sum(released) = Calls(10)

\* destroyed after one change (two calls) and a ChangeCheck without one
C4_Witness ==
  /\ prog = ProgCount
  /\ stage = "destroyed"
  /\ Calls(10) = 2
  /\ Cardinality(Checks) >= 2

\* the hooks ngOnConnect registered to a phase, in registration order
HooksOf(ph) ==
  LET its == SelectSeq(prog, LAMBDA it : it.api \in HookApis /\ HookPhase(it.api) = ph)
  IN [i \in 1 .. Len(its) |-> its[i].cb]

\* the firings of the last trigger: <<position of the fire event, last
\* position of the firing>>
Firings ==
  LET fires == {f \in LastSeg : log[f].k = "fire"}
      end(f) == IF \E g \in fires : g > f
                THEN Min({g \in fires : g > f}) - 1
                ELSE Len(log)
  IN {<<f, end(f)>> : f \in fires}

\* what one hook of a firing does: its body and the effects it registered
HookPart(h, f, g) ==
  {i \in f .. g :
     \/ log[i].k \in {"hook", "hookEnd"} /\ log[i].cb = h
     \/ /\ log[i].k = "call"
        /\ log[i].via = "runEffects"
        /\ \E it \in Range(CB[h].regs) : it.cb = log[i].cb}

\* C5: in every firing of a phase, of two hooks registered to it the one
\* registered first, with the effects it registered, is over before the
\* other starts.
C5_HooksInRegistrationOrder ==
  \A fg \in Firings :
    LET hs == HooksOf(log[fg[1]].ph)
    IN \A a, b \in 1 .. Len(hs) :
         a < b =>
           /\ Cardinality(HookPart(hs[a], fg[1], fg[2])) = 2 + Len(CB[hs[a]].regs)
           /\ Cardinality(HookPart(hs[b], fg[1], fg[2])) = 2 + Len(CB[hs[b]].regs)
           /\ \A i \in HookPart(hs[a], fg[1], fg[2]) :
                \A j \in HookPart(hs[b], fg[1], fg[2]) : i < j

\* a phase with two hooks fired for the second time
C5_Witness ==
  /\ \E fg \in Firings : Len(HooksOf(log[fg[1]].ph)) = 2
  /\ Calls(12) = 2
  /\ Calls(14) = 2

\* connect, Init, one change-detection pass, Destroy
OnePass == <<"connect", OnInit, DoCheck, AfterViewInit, AfterViewChecked, OnDestroy>>

\* the place of a callback in the order C6 states, by the way it was
\* registered: an effect of setup, or a hook (and the effects the hook
\* registers)
Rank(cb) ==
  LET it == CHOOSE x \in Range(prog) :
              x.cb = cb \/ \E y \in Range(CB[x.cb].regs) : y.cb = cb
  IN CASE it.api \in EffectApis -> 1
       [] it.api = "onChanges" -> 2
       [] it.api = "afterViewInit" -> 3
       [] it.api = "whenRendered" -> 4
       [] it.api = "onDestroy" -> 5

\* C6: over connect, Init, the first pass and Destroy the callbacks run in
\* the order setup effects, InputsChanged, ViewReady, Rendered, OnDestroy;
\* a hook's body is over before the effects it registered run, and these run
\* before anything else does.
C6_FirstPassOrder ==
  IsPrefix(ExtSeq, OnePass) =>
    /\ \A i, j \in Idx :
         (i < j /\ IsCall(log[i]) /\ IsCall(log[j])) => Rank(log[i].cb) <= Rank(log[j].cb)
    /\ \A i \in Idx :
         (log[i].k = "hook" /\ log[i].cb # Noop) =>
           LET regs == CB[log[i].cb].regs
           IN /\ i + 1 + Len(regs) <= Len(log)
              /\ log[i + 1].k = "hookEnd"
              /\ log[i + 1].cb = log[i].cb
              /\ \A n \in 1 .. Len(regs) :
                   log[i + 1 + n].k = "call" /\ log[i + 1 + n].cb = regs[n].cb

\* the nine callbacks of the order test, all run
C6_Witness ==
  /\ ExtSeq = OnePass
  /\ prog = ProgOrder
  /\ CallSeq = <<1, 2, 3, 4, 5, 6, 7, 8, 9>>

\* C7 as claimed: over connect, Init, one pass and Destroy a callback
\* registered once in setup is called exactly once.
C7_EachCalledOnce ==
  ExtSeq = OnePass => \A it \in Range(prog) : Calls(it.cb) = 1

\* C7 as amended: ... is called exactly once, except an onChanges callback
\* on a host none of whose properties holds a value other than null at the
\* first ChangeCheck, which is not called.
C7_EachCalledOnceIfChanged ==
  ExtSeq = OnePass =>
    \A it \in Range(prog) :
      Calls(it.cb) =
        IF it.api = "onChanges" /\ \A c \in Checks : ~Detected(c) THEN 0 ELSE 1

C7_Witness ==
  /\ ExtSeq = OnePass
  /\ prog = ProgOrder
  /\ \E c \in Checks : Detected(c)
  /\ \A it \in Range(prog) : Calls(it.cb) = 1

\* Rendered fired in the last trigger; the Rendered firings before it
RenderedNow == \E i \in LastSeg : log[i].k = "fire" /\ log[i].ph = WhenRendered
RenderedBefore ==
  {i \in 1 .. (LastExt - 1) : log[i].k = "fire" /\ log[i].ph = WhenRendered}
DetectedSinceRendered ==
  LET last == IF RenderedBefore = {} THEN 0 ELSE Max(RenderedBefore)
  IN \E c \in {x \in Checks : last < x /\ x < LastExt} : Detected(c)

\* C8 as claimed: a ViewChecked trigger fires Rendered if and only if a
\* ChangeCheck detected a change since the previous Rendered firing.
C8_RenderedIffChange ==
  LastIs(AfterViewChecked) => (RenderedNow <=> DetectedSinceRendered)

\* C8 as amended: ... if and only if Rendered has not fired yet for the host
\* or a ChangeCheck detected a change since the previous Rendered firing.
C8_RenderedIffFirstOrChange ==
  LastIs(AfterViewChecked) =>
    (RenderedNow <=> (RenderedBefore = {} \/ DetectedSinceRendered))

\* Rendered fired again after a detected change
C8_Witness ==
  /\ LastIs(AfterViewChecked)
  /\ RenderedBefore # {}
  /\ RenderedNow

\* an API call is the step being taken
ApiStep == Len(log') > Len(log) /\ log'[Len(log) + 1].k = "api"

\* C9: an API that needs the context, called while there is none (dependency
\* lookup, hook registration, effect registration, reactive view, schedule
\* without a host), raises the no-context error and changes no registry, no
\* bucket, not the pending effects and not the scheduler.
C9_NoContextRaisesAndKeeps ==
  [][(ctx = NoCtx /\ ApiStep) =>
       /\ Len(log') = Len(log) + 2
       /\ log'[Len(log) + 2].k = "throw"
       /\ log'[Len(log) + 2].via = "NoContext"
       /\ UNCHANGED <<host, ctx, lifecycle, hooks, cleanup, effects, invalidations,
                      depsMap, sched, changed, differ, released>>]_vars

\* C10: a host without hooks and effects: no user callback is called and no
\* error is raised, whatever the triggers.
C10_NoCallbackNoError ==
  prog = ProgNone => \A i \in Idx : ~IsCall(log[i]) /\ log[i].k # "throw"

C10_Witness ==
  /\ prog = ProgNone
  /\ ExtSeq = <<"connect", OnInit, DoCheck, DoCheck, DoCheck, OnDestroy>>

\* C11: whatever the triggers, mutations and invalidation passes, no
\* teardown is released more than once.
C11_NoDoubleRelease == \A r \in 1 .. Len(released) : released[r] <= 1

\* the runs of bucket ph that returned a teardown, by the position of the call
ArtifactsOf(ph, S) ==
  {i \in S : log[i].k \in {"hook", "call"} /\ log[i].ph = ph /\ CB[log[i].cb].ret}

\* C12: when a phase fires again, every teardown the bucket got before is
\* released before the first hook of the new firing starts, and the bucket
\* holds nothing older than the phase's latest firing.
C12_FlushedBeforeRefire ==
  /\ \A f \in {x \in LastSeg : log[x].k = "fire"} :
       LET hs == {h \in f .. Len(log) : log[h].k = "hook"}
           first == IF hs = {} THEN Len(log) + 1 ELSE Min(hs)
       IN \A i \in ArtifactsOf(log[f].ph, 1 .. (f - 1)) :
            \E j \in i .. (first - 1) : log[j].k = "release" /\ log[j].run = log[i].run
  /\ \A ph \in Buckets :
       LET fs == {f \in Idx : log[f].k = "fire" /\ log[f].ph = ph}
           last == IF fs = {} THEN 0 ELSE Max(fs)
       IN \A n \in 1 .. Len(cleanup[ph]) :
            cleanup[ph][n] # 0 =>
              \E i \in last .. Len(log) :
                log[i].k \in {"hook", "call"} /\ log[i].run = cleanup[ph][n]

\* a phase fired again and released what its hooks and their effects had
\* left, and its bucket holds the teardowns of the new firing
C12_Witness ==
  /\ \E f \in LastSeg :
       /\ log[f].k = "fire"
       /\ Cardinality({j \in f .. Len(log) :
                         log[j].k = "release" /\ log[j].via = "flush"}) >= 2
  /\ \E ph \in Buckets : Len(cleanup[ph]) >= 2 /\ ph # OnInit

\* the first external event after the Destroy trigger (past the log if none)
AfterDestroy ==
  LET ds == {i \in Idx : log[i].k = "trigger" /\ log[i].ph = OnDestroy}
      later == {x \in ExtIdx : ds # {} /\ x > Min(ds)}
  IN IF later = {} THEN Len(log) + 1 ELSE Min(later)

\* C13: once the Destroy trigger has been processed, no later trigger, be it
\* schedule for some phase or a write through the reactive view, calls a
\* hook or an effect of the host.
C13_NothingRunsAfterDestroy ==
  \A i \in AfterDestroy .. Len(log) : log[i].k \notin {"hook", "call"}

\* a host with hooks and effects was destroyed, then scheduled again and
\* written to through its reactive view
C13_Witness ==
  /\ prog = ProgOrder
  /\ \E i, j \in AfterDestroy .. Len(log) :
       /\ log[i].k = "trigger" /\ log[i].via = "ext"
       /\ log[j].k = "trigger" /\ log[j].via = "set"

\* C14: whenever the scheduler Subject is terminated, every cleanup bucket
\* of the host is empty, the OnDestroy bucket with what its hooks and the
\* effects they registered returned included.
C14_TerminatedMeansEmpty ==
  sched = "closed" => \A b \in Buckets : cleanup[b] = <<>>

\* an onDestroy hook and the effect it registered both returned a teardown,
\* and both were released when the Subject completed
C14_Witness ==
  /\ sched = "closed"
  /\ \E h, c \in Idx :
       /\ log[h].k = "hook" /\ log[h].ph = OnDestroy /\ CB[log[h].cb].ret
       /\ log[c].k = "call" /\ log[c].ph = OnDestroy /\ CB[log[c].cb].ret
       /\ \E i, j \in Idx :
            /\ log[i].k = "release" /\ log[i].via = "complete" /\ log[i].run = log[h].run
            /\ log[j].k = "release" /\ log[j].via = "complete" /\ log[j].run = log[c].run

\* the runInContext call that a function's "enter" at i belongs to is at
\* i - 1, and "leave" at j - 1 precedes the "return" at j

\* C15: runInContext(context, lifecycle, func) makes context and lifecycle
\* the ambient ones when func starts and until func ends or calls
\* runInContext itself, returns what func returned, and leaves no ambient
\* context and no lifecycle hook when it returns, nested or not; after a
\* nested call has returned the outer func finds none.
C15_RunInContext ==
  \A i \in Idx :
    /\ log[i].k = "runInContext" =>
         /\ i < Len(log)
         /\ log[i + 1].k = "enter" /\ log[i + 1].cb = log[i].cb
         /\ log[i + 1].via = log[i].via /\ log[i + 1].ph = log[i].ph
    /\ log[i].k = "leave" =>
         /\ i > 1
         /\ IF log[i - 1].k \in {"enter", "injector"}
            THEN log[i].via = log[i - 1].via /\ log[i].ph = log[i - 1].ph
            ELSE log[i - 1].k = "return" /\ log[i].via = NoCtx /\ log[i].ph = NoPhase
    /\ log[i].k = "return" =>
         /\ i > 1
         /\ log[i - 1].k = "leave" /\ log[i - 1].cb = log[i].cb
         /\ log[i].run = log[i - 1].run
         /\ log[i].via = NoCtx /\ log[i].ph = NoPhase
         /\ i = Len(log) => ctx = NoCtx /\ lifecycle = NoPhase

\* a call with two levels of calls inside it has returned the sum of their
\* results
C15_Witness ==
  /\ Len(log) > 0
  /\ log[Len(log)].k = "return" /\ log[Len(log)].cb = 3 /\ log[Len(log)].run = 4
  /\ ctx = NoCtx

\* the hook and cleanup Sets the maps hold for a context
HooksIn(c) == IF c = Host THEN hooks ELSE peers[c].hooks
CleanupIn(c) == IF c = Host THEN cleanup ELSE peers[c].cleanup

\* the connect calls for context c before position i
ConnectsOf(c, i) == {j \in 1 .. (i - 1) : log[j].k = "connect" /\ log[j].via = c}

\* C16: right after connect(context, injector) the active context is that
\* context and each of its six hook Sets and six cleanup Sets is empty; and
\* getInjector() with a context active returns the injector of the latest
\* connect for that very context, whatever other contexts were connected.
C16_ConnectAndInjector ==
  /\ \A i \in Idx :
       log[i].k = "injector" =>
         /\ ConnectsOf(log[i].via, i) # {}
         /\ log[i].run = log[Max(ConnectsOf(log[i].via, i))].run
  /\ (Len(log) > 0 /\ log[Len(log)].k = "connect") =>
       /\ ctx = log[Len(log)].via
       /\ injectorMap[ctx] = log[Len(log)].run
       /\ \A b \in Buckets : HooksIn(ctx)[b] = <<>> /\ CleanupIn(ctx)[b] = <<>>

\* two contexts are connected with different injectors and the one connected
\* first gets its own injector
C16_Witness ==
  \E i \in Idx :
    /\ log[i].k = "injector"
    /\ \E j \in ConnectsOf(log[i].via, i) :
         \E o \in 1 .. (i - 1) :
           /\ o > j
           /\ log[o].k = "connect" /\ log[o].via # log[i].via /\ log[o].run # log[j].run

\* the positions of the calls setup makes into user code
SetupCalls(k) == {i \in Idx : log[i].k = k}

\* C17: when init has set the host up, ngOnConnect was called once and each
\* initializer once, each with the host's reactive view, ngOnConnect before
\* every initializer and the initializers in their order, all of them before
\* OnInit fired; no later trigger calls them again, and none is called
\* before init.
C17_SetupCallsOnce ==
  IF stage \in {"new", "connected"}
  THEN SetupCalls("ngOnConnect") = {} /\ SetupCalls("initializer") = {}
  ELSE /\ Cardinality(SetupCalls("ngOnConnect")) = 1
       /\ Cardinality(SetupCalls("initializer")) = Len(initializers)
       /\ \E f \in Idx :
            /\ log[f].k = "fire" /\ log[f].ph = OnInit
            /\ \A c \in SetupCalls("ngOnConnect") :
                 /\ c < f
                 /\ log[c].via = Reactive(Host)
                 /\ \A n \in 1 .. Len(initializers) :
                      \E i \in SetupCalls("initializer") :
                        /\ log[i].cb = initializers[n]
                        /\ log[i].via = Reactive(Host)
                        /\ c < i /\ i < f
                        /\ Cardinality({j \in SetupCalls("initializer") : j <= i}) = n

\* a host with two initializers was set up, checked and destroyed
C17_Witness ==
  /\ stage = "destroyed"
  /\ Len(initializers) = 2
  /\ prog = ProgOrder
  /\ \E i \in Idx : log[i].k = "hook" /\ log[i].cb = 18

\* callbacks registered with effect(), which asks for no tracking
Untracked(cb) == \E it \in AllItems : it.cb = cb /\ it.api = "effect"

\* C18: an effect registered without tracking is never run again by an
\* invalidation pass and its teardown is never released by one, whatever it
\* read and whatever changed; its teardown goes only when its bucket is
\* flushed by a firing or by the completion on Destroy.
C18_UntrackedNeverInvalidated ==
  \A i \in Idx :
    (log[i].k = "call" /\ Untracked(log[i].cb)) =>
      /\ log[i].via = "runEffects"
      /\ \A j \in Idx :
           /\ (log[j].k = "call" /\ j > i) => log[j].from # log[i].run
           /\ (log[j].k = "release" /\ log[j].run = log[i].run) =>
                log[j].via \in {"flush", "complete"}

\* an untracked effect read a property, the property was then assigned and
\* a check has run
C18_Witness ==
  \E i \in Idx :
    /\ log[i].k = "call" /\ Untracked(log[i].cb)
    /\ \E p \in Range(CB[log[i].cb].reads) :
         \E m, c \in i .. Len(log) :
           /\ log[m].k = "mutate" /\ log[m].ph = p
           /\ m < c
           /\ log[c].k = "trigger" /\ log[c].ph = DoCheck

\* C19: an effect whose callback returns something that is no function, has
\* no unsubscribe and is not undefined fails with the invalid-return error
\* when it is run, and what it returned is in no cleanup Set.
C19_InvalidReturnFails ==
  \A i \in Idx :
    (log[i].k = "call" /\ CB[log[i].cb].fault = "invalid") =>
      /\ \E j \in i .. Len(log) : log[j].k = "throw" /\ log[j].via = "InvalidEffectReturn"
      /\ \A b \in Buckets : \A n \in 1 .. Len(cleanup[b]) : cleanup[b][n] # 0 - log[i].run

\* the teardowns the cleanup Sets hold that were returned before position i
HeldFrom(i) ==
  {r \in UNION {Range(cleanup[b]) : b \in Buckets} :
     r > 0 /\ \E j \in 1 .. i : log[j].k \in {"hook", "call"} /\ log[j].run = r}

\* C20: when a hook or an effect throws in a firing other than OnDestroy's,
\* the error handlers of the Subject's subscribers run: every cleanup Set is
\* flushed and the error is logged; the Subject is not terminated.
C20_ThrowFlushesAll ==
  \A i \in LastSeg :
    (log[i].k = "throw" /\ log[i].via = "Error" /\ log[i].ph # OnDestroy) =>
      /\ sched # "closed"
      /\ HeldFrom(i) = {}
      /\ \E j \in i .. Len(log) : log[j].k = "console.error"

\* the OnChanges firings of the last trigger, and the calls of hook h in them
ChangesFired == {f \in LastSeg : log[f].k = "fire" /\ log[f].ph = OnChanges}
ChangesHooked(h) ==
  {i \in LastSeg : log[i].k = "hook" /\ log[i].ph = OnChanges /\ log[i].cb = h}

\* C21 as stated: OnChanges fires in a ChangeCheck pass exactly when some host
\* property differs from its value at the previous pass, of which the first
\* pass has none.
C21_ChangesIffDiffersFromPrevious ==
  LastIs(DoCheck) =>
    Cardinality(ChangesFired) =
      (IF PrevCheck(LastExt) # 0 /\ Detected(LastExt) THEN 1 ELSE 0)

\* C21: OnChanges fires in a ChangeCheck pass exactly when some host property
\* differs from its value at the previous pass, or from null at the first
\* pass; it fires once and calls each onChanges hook once, however many
\* properties differ.
C21_ChangesIffDetected ==
  LastIs(DoCheck) =>
    /\ Cardinality(ChangesFired) = (IF Detected(LastExt) THEN 1 ELSE 0)
    /\ \A n \in 1 .. Len(HooksOf(OnChanges)) :
         Cardinality(ChangesHooked(HooksOf(OnChanges)[n])) = Cardinality(ChangesFired)

\* a pass after the first found both properties changed and the onChanges
\* hook was called
C21_Witness ==
  /\ LastIs(DoCheck)
  /\ PrevCheck(LastExt) # 0
  /\ \A p \in Props : ValAt(p, LastExt) # ValAt(p, PrevCheck(LastExt))
  /\ \E h \in Range(HooksOf(OnChanges)) : ChangesHooked(h) # {}

\* the AfterViewInit firings, and the external triggers of a phase
ViewInitFired == {f \in Idx : log[f].k = "fire" /\ log[f].ph = AfterViewInit}
TriggersOf(ph) == {i \in ExtIdx : log[i].k = "trigger" /\ log[i].ph = ph}

\* C22 as stated: the afterViewInit hooks fire once, in the first
\* view-checked trigger.
C22_ViewInitAtFirstViewChecked ==
  TriggersOf(AfterViewChecked) # {} =>
    /\ Cardinality(ViewInitFired) = 1
    /\ \A f \in ViewInitFired : LastExtFrom(f) = Min(TriggersOf(AfterViewChecked))

\* C22: the afterViewInit hooks fire once per host, in the view-init trigger,
\* which comes once and before the first view-checked trigger; no
\* view-checked trigger and no other trigger fires them.
C22_ViewInitOnce ==
  /\ Cardinality(ViewInitFired) = Cardinality(TriggersOf(AfterViewInit))
  /\ Cardinality(ViewInitFired) <= 1
  /\ \A f \in ViewInitFired :
       /\ LastExtFrom(f) \in TriggersOf(AfterViewInit)
       /\ \A c \in TriggersOf(AfterViewChecked) : f < c
  /\ \A n \in 1 .. Len(HooksOf(AfterViewInit)) :
       Calls(HooksOf(AfterViewInit)[n]) = Cardinality(ViewInitFired)

\* a host with an afterViewInit hook went through two view-checked triggers
C22_Witness ==
  /\ Len(HooksOf(AfterViewInit)) > 0
  /\ Cardinality(TriggersOf(AfterViewChecked)) >= 2
  /\ ViewInitFired # {}

\* the ChangeChecks the set trap scheduled in the last external event
SetChecks == {i \in LastSeg : log[i].k = "trigger" /\ log[i].via = "set"}

\* C23: a write through the reactive view stores the value on the host and
\* then schedules DoCheck once for that host; the pass sees the new value:
\* an effect that tracks the property and saw another value is run again in
\* it, and the snapshots and the differ hold the new value afterwards.
C23_SetStoresThenChecks ==
  (LastExt > 0 /\ log[LastExt].k = "mutate") =>
    /\ host[log[LastExt].ph] = log[LastExt].run
    /\ SetChecks = {LastExt + 1}
    /\ log[LastExt + 1].ph = DoCheck
    /\ stage = "live" =>
         /\ differ[log[LastExt].ph] = log[LastExt].run
         /\ \A q \in EffectRuns(LastExt + 1) :
              ChangedSince(q, LastExt + 1) => Cardinality(RerunsOf(log[q].run)) = 1
         /\ \A n \in 1 .. Len(invalidations) :
              \A k \in 1 .. Len(invalidations[n].deps) :
                invalidations[n].deps[k] = log[LastExt].ph =>
                  invalidations[n].prev[k] = log[LastExt].run

\* a write of a new value to a property a live effect tracks, the effect run
\* again by the check the write scheduled
C23_Witness ==
  /\ LastExt > 0 /\ log[LastExt].k = "mutate"
  /\ stage = "live"
  /\ log[LastExt].run # ValAt(log[LastExt].ph, LastExt)
  /\ \E i \in LastSeg : log[i].k = "call" /\ log[i].via = "invalidate"

\* the context that was active when callback cb was last registered before
\* position i; what setup registers it registers for the host
RegisteredIn(cb, i) ==
  LET rs == {g \in 1 .. (i - 1) : log[g].k = "register" /\ log[g].cb = cb}
  IN IF rs = {} THEN Host ELSE log[Max(rs)].via

\* C24: with two connected contexts, an effect registered while one of them
\* was active is run for that one only: no trigger of the host runs an effect
\* that was registered while the other context was active, and neither its
\* teardown nor its invalidation entry is kept with the host.
C24_EffectsStayWithTheirHost ==
  \A i \in Idx :
    log[i].k = "call" =>
      /\ RegisteredIn(log[i].cb, i) = Host
      /\ \A b \in Buckets : \A n \in 1 .. Len(cleanup[b]) :
           cleanup[b][n] = log[i].run => RegisteredIn(log[i].cb, i) = Host
      /\ \A n \in 1 .. Len(invalidations) :
           invalidations[n].run = log[i].run => RegisteredIn(log[i].cb, i) = Host

\* the calls of effect method e, by the call of the runner they belong to
EffectCalls(e, at) == {i \in Idx : log[i].k = "effect" /\ log[i].cb = e /\ log[i].ph = at}
Renders == {i \in Idx : log[i].k = "trigger" /\ log[i].ph = "rendered"}

\* C25: each effect method of a connected host is called at most once: one
\* whose options.whenRendered is false when the host is connected, one whose
\* options.whenRendered is true at the first rendered notification that
\* reaches the live host and at no other; none is called at both points.
C25_EffectMethodsOnce ==
  \A n \in 1 .. Len(deco.metas) :
    LET e == deco.metas[n]
    IN /\ Cardinality(EffectCalls(e, "connect")) + Cardinality(EffectCalls(e, "rendered")) <= 1
       /\ stage # "new" =>
            IF EFF[e].whenRendered
            THEN /\ EffectCalls(e, "connect") = {}
                 /\ \A i \in EffectCalls(e, "rendered") : LastExtFrom(i) = Min(Renders)
            ELSE /\ Cardinality(EffectCalls(e, "connect")) = 1
                 /\ EffectCalls(e, "rendered") = {}

\* a host with effects of both kinds has seen two rendered notifications
C25_Witness ==
  /\ Cardinality(Renders) >= 2
  /\ \E m, n \in 1 .. Len(deco.metas) :
       /\ EffectCalls(deco.metas[m], "connect") # {}
       /\ EffectCalls(deco.metas[n], "rendered") # {}

\* the emissions of effects' observables, and what one of them led to
Emits == {i \in Idx : log[i].k = "trigger" /\ log[i].ph = "emit"}
InEmit(i, kind) == {j \in Idx : log[j].k = kind /\ LastExtFrom(j) = i}

\* C26: when an effect's observable emits and the value is assigned, an
\* effect whose options set detectChanges has change detection run within
\* that emission and markDirty is not requested, whether or not markDirty is
\* set too; markDirty is requested only for an effect whose options set
\* markDirty and not detectChanges.
C26_DetectChangesBeforeMarkDirty ==
  \A i \in Emits :
    LET e == log[i].cb
        applied == InEmit(i, "reported") = {}
    IN /\ EFF[e].detectChanges =>
            /\ InEmit(i, "markDirty") = {}
            /\ applied => Cardinality(InEmit(i, "detectChanges")) = 1
            /\ \A j \in InEmit(i, "detectChanges") : log[j].via = "now"
       /\ ~EFF[e].detectChanges =>
            /\ InEmit(i, "detectChanges") = {}
            /\ InEmit(i, "markDirty") # {} => EFF[e].markDirty
            /\ EFF[e].markDirty /\ applied => Cardinality(InEmit(i, "markDirty")) = 1

\* an effect with both options set has emitted and change detection ran;
\* an effect with markDirty alone has emitted too
C26_Witness ==
  /\ \E i \in Emits : /\ EFF[log[i].cb].detectChanges /\ EFF[log[i].cb].markDirty
                      /\ InEmit(i, "detectChanges") # {}
  /\ \E i \in Emits : ~EFF[log[i].cb].detectChanges /\ InEmit(i, "markDirty") # {}

\* the properties an emission targets: the keys of the emitted partial for
\* assign (the emission logs 1 when one of them is undeclared), the bound
\* one for bind
Undeclared == {"c"}
WritesTo(i, p) == {j \in InEmit(i, "mutate") : log[j].ph = p}
MissingAt(i) == {j \in InEmit(i, "throw") : log[j].via = "MissingProperty"}

\* C27: an emission that reaches the write of a host property that was never
\* declared has the missing-property error thrown within that emission, and
\* the property is not written: the host has no such property afterwards.
C27_UndeclaredPropertyThrows ==
  /\ DOMAIN host = Props
  /\ \A i \in Emits : \A p \in Undeclared :
       /\ WritesTo(i, p) = {}
       /\ (~EFF[log[i].cb].assign /\ EFF[log[i].cb].bind = p) => MissingAt(i) # {}
       /\ (EFF[log[i].cb].assign /\ log[i].from = 1) => MissingAt(i) # {}

\* a bound and an assigning effect have both emitted for an undeclared property
C27_Witness ==
  /\ \E i \in Emits : ~EFF[log[i].cb].assign /\ MissingAt(i) # {}
  /\ \E i \in Emits : EFF[log[i].cb].assign /\ MissingAt(i) # {}

\* what the framework's injector returns for the same token, providers and
\* modifiers: Self looks at the host's own node only, SkipSelf starts at the
\* parent, Optional turns a failure into null
Framework(own, par, name) ==
  CASE name = "Default" -> NodeGet(own, par, "undefined")
    [] name = "Optional" -> NodeGet(own, par, "null")
    [] name = "Self" -> NodeGet(own, 0, "undefined")
    [] name = "Optional|Self" -> NodeGet(own, 0, "null")
    [] name = "SkipSelf" -> NodeGet(par, 0, "undefined")
    [] name = "Optional|SkipSelf" -> NodeGet(par, 0, "null")
Injects == {i \in Idx : log[i].k = "inject"}

\* C28: inject(token, flags) returns what the framework's injector returns
\* for the same modifiers: null for an unprovided token with Optional, only
\* the host's own providers with Self, the parent's with SkipSelf, and an
\* error for a token that is not found without Optional.
C28_InjectAsFramework ==
  \A i \in Injects : log[i].via = Framework(log[i].cb, log[i].run, log[i].ph)

\* the effects setup registers: those of ngOnConnect and of the initializers
SetupItems == Range(prog) \cup UNION {Range(INIT[initializers[n]]) : n \in 1 .. Len(initializers)}
SetupEffects == {it.cb : it \in {x \in SetupItems : x.api \in EffectApis}}
SetupHooks == {it.cb : it \in {x \in SetupItems : x.api \in HookApis}}
InitRuns(cb) == {i \in Idx : log[i].k = "call" /\ log[i].cb = cb /\ log[i].via = "runEffects"}
InitFire == {i \in Idx : log[i].k = "fire" /\ log[i].ph = OnInit}

\* C29: once init has set the host up, every effect registered by
\* ngOnConnect or an initializer has been run by runEffects exactly once, in
\* the firing of OnInit that init schedules and so before any DoCheck
\* trigger, whether or not user code registered hooks; before init none has
\* run.
C29_SetupEffectsRunInInit ==
  \A cb \in SetupEffects :
    IF stage \in {"new", "connected"} THEN InitRuns(cb) = {}
    ELSE /\ Cardinality(InitRuns(cb)) = 1
         /\ Cardinality(InitFire) = 1
         /\ \A i \in InitRuns(cb) :
              /\ log[LastExtFrom(i)].k = "trigger" /\ log[LastExtFrom(i)].ph = OnInit
              /\ \A f \in InitFire : f < i /\ LastExtFrom(f) = LastExtFrom(i)
              /\ \A j \in Idx : (log[j].k = "trigger" /\ log[j].ph = DoCheck) => i < j

\* a host whose setup registered an effect and no hook has been checked
C29_Witness ==
  /\ SetupEffects # {}
  /\ SetupHooks = {}
  /\ \E j \in Idx : log[j].k = "trigger" /\ log[j].ph = DoCheck
  /\ \A cb \in SetupEffects : InitRuns(cb) # {}

\* what an invalidation pass does: it releases teardowns and runs effects again
PassSteps == {i \in Idx : log[i].k \in {"call", "release"} /\ log[i].via = "invalidate"}
ChangesStarts == {i \in Idx : log[i].k \in {"fire", "hook"} /\ log[i].ph = OnChanges}

\* C30: within one DoCheck trigger every release and every re-run of the
\* invalidation pass comes before the firing of OnChanges and before each of
\* its hooks; invalidation happens under DoCheck triggers only.
C30_InvalidationBeforeChangesHooks ==
  /\ \A i \in PassSteps : log[LastExtFrom(i)].k = "trigger" /\ log[LastExtFrom(i)].ph = DoCheck
  /\ \A i \in PassSteps : \A j \in ChangesStarts : LastExtFrom(i) = LastExtFrom(j) => i < j

\* one DoCheck trigger has run an effect again and then called an OnChanges hook
C30_Witness ==
  \E i \in PassSteps : \E j \in ChangesStarts :
    /\ log[i].k = "call"
    /\ log[j].k = "hook" /\ log[j].cb # Noop
    /\ LastExtFrom(i) = LastExtFrom(j)

\* the entries whose tracked values differ from the values stored with them
Stale(e) == \E i \in 1 .. Len(e.deps) : e.prev[i] # host[e.deps[i]]
StaleRuns == [i \in 1 .. Len(SelectSeq(invalidations, Stale)) |->
                SelectSeq(invalidations, Stale)[i].run]
\* the runs replaced by the re-runs a step has added to the log
IsRerun(e) == e.k = "call" /\ e.via = "invalidate"
Replaced(old, new) ==
  [i \in 1 .. Len(SelectSeq(SubSeq(new, Len(old) + 1, Len(new)), IsRerun)) |->
     SelectSeq(SubSeq(new, Len(old) + 1, Len(new)), IsRerun)[i].from]
IsCheckStep ==
  /\ Len(log') > Len(log)
  /\ log'[Len(log) + 1].k = "trigger" /\ log'[Len(log) + 1].ph = DoCheck

\* C31: a DoCheck trigger runs again every effect run whose invalidation
\* entry holds a value that differs from the host's, each once and in the
\* order of the entries, whatever happened to the entries before it in the
\* same pass, and runs no other again.
C31_EveryStaleEntryIsRerun ==
  [][IsCheckStep => Replaced(log, log') = StaleRuns]_vars

\* one pass has run two effects again
C31_Witness ==
  \E i, j \in Idx : /\ i < j
                    /\ IsRerun(log[i]) /\ IsRerun(log[j])
                    /\ log[i].cb # log[j].cb
                    /\ LastExtFrom(i) = LastExtFrom(j)

\* the own enumerable properties a callback reads, each once, in order
RECURSIVE Distinct(_)
Distinct(ps) ==
  IF ps = <<>> THEN <<>>
  ELSE SetAdd(Distinct(SubSeq(ps, 1, Len(ps) - 1)), ps[Len(ps)])
ReadSet(cb) == Distinct(SelectSeq(CB[cb].reads, LAMBDA p : p \in Props))

\* C32: the invalidation entry of every run of a tracked effect holds
\* exactly the host properties that the callback read through the reactive
\* view, also when the callback wrote a host property through the view or
\* other effects ran while it executed.
C32_SnapshotIsWhatTheRunRead ==
  \A i \in 1 .. Len(invalidations) :
    invalidations[i].watch => invalidations[i].deps = ReadSet(invalidations[i].cb)

\* own, enumerable data properties
DataProperty(p) == OwnProperty(p) /\ DESC[p].enumerable /\ ~DESC[p].accessor

\* C33: the read-set and every snapshot hold own, enumerable data
\* properties of the host only, so an effect is run again only after one of
\* those changed.
C33_OnlyOwnEnumerableDataTracked ==
  /\ \A i \in 1 .. Len(depsMap) : DataProperty(depsMap[i])
  /\ \A i \in 1 .. Len(invalidations) : \A k \in 1 .. Len(invalidations[i].deps) :
       DataProperty(invalidations[i].deps[k])

\* the call that made an invalidation entry, and the bucket of a run
CallOf(r) == CHOOSE i \in Idx : log[i].k = "call" /\ log[i].run = r
BucketOf(r) == log[CallOf(r)].ph
Held(e) == e.teardown > 0 /\ released[e.teardown] = 0

\* C34 as stated: every run of an effect, first or repeated, has its
\* teardown in the bucket of the lifecycle hook that is current at that run.
C34_TeardownInCurrentBucket ==
  \A i \in 1 .. Len(invalidations) : invalidations[i].bucket = invalidations[i].phase

\* C34: the first run of an effect records its teardown in the bucket of
\* the lifecycle hook that is current, the one whose firing runs it; a
\* re-run by invalidation happens under DoCheck and records its teardown in
\* the bucket of the run it replaces. A teardown not yet released is in that
\* bucket.
C34_TeardownInFirstBucket ==
  \A i \in 1 .. Len(invalidations) :
    LET e == invalidations[i]
        c == log[CallOf(e.run)]
    IN /\ c.ph = e.bucket
       /\ c.via = "runEffects" => e.bucket = e.phase
       /\ c.via = "invalidate" => e.phase = DoCheck /\ e.bucket = BucketOf(c.from)
       /\ Held(e) => \E k \in 1 .. Len(cleanup[e.bucket]) : cleanup[e.bucket][k] = e.teardown

\* a re-run holds its teardown in the bucket of the run it replaced
C34_Witness ==
  \E i \in 1 .. Len(invalidations) :
    /\ log[CallOf(invalidations[i].run)].via = "invalidate"
    /\ Held(invalidations[i])
    /\ invalidations[i].bucket # DoCheck
    /\ invalidations[i].bucket = BucketOf(log[CallOf(invalidations[i].run)].from)

\* the markDirty branches taken, the calls of viewRenderer.markDirty made
\* for one of them and the suspended calls still waiting for it
DirtyBranches == {i \in Idx : log[i].k = "markDirty"}
DirtyCalls(m) == {j \in Idx : log[j].k = "viewRenderer.markDirty" /\ log[j].run = m}
DirtyWaiting(m) == {n \in 1 .. Len(deco.pending) : deco.pending[n].at = m}

\* C35: a markDirty request is suspended for one microtask exactly when the
\* host is in create mode or the code runs outside the Angular zone, and is
\* then made by the step of the microtask queue that resumes it; otherwise
\* it is made at once, before anything else happens. Each emission that
\* takes the markDirty branch leads to one request, made or still waiting.
C35_MarkDirtyDeferredOnce ==
  \A m \in DirtyBranches :
    /\ Cardinality(DirtyCalls(m)) + Cardinality(DirtyWaiting(m)) = 1
    /\ log[m].via = "microtask" <=> (log[m].run = 1 \/ log[m].from = 0)
    /\ log[m].via = "now" => DirtyCalls(m) = {m + 1}
    /\ log[m].via = "microtask" =>
         \A j \in DirtyCalls(m) : /\ log[j - 1].k = "trigger" /\ log[j - 1].ph = "microtask"
                                  /\ m < j - 1

\* a request made in create mode, one made outside the zone and one made
\* at once have all been issued
C35_Witness ==
  /\ \E m \in DirtyBranches : log[m].run = 1 /\ DirtyCalls(m) # {}
  /\ \E m \in DirtyBranches : log[m].run = 0 /\ log[m].from = 0 /\ DirtyCalls(m) # {}
  /\ \E m \in DirtyBranches : log[m].via = "now" /\ DirtyCalls(m) # {}

\* what reaches the framework: a view marked dirty, a change detection run
Destroyed == \E i \in Idx : log[i].k = "trigger" /\ log[i].ph = OnDestroy
DestroyedAt == CHOOSE i \in Idx : log[i].k = "trigger" /\ log[i].ph = OnDestroy
Requests ==
  {i \in Idx : \/ log[i].k = "detectChanges"
               \/ log[i].k = "viewRenderer.markDirty" /\ log[i].via = "marked"}

ThrewInRunInContext ==
  /\ Len(log) > 0
  /\ log[Len(log)].k = "throw"
  /\ \E j \in Idx : log[j].k = "runInContext"

\* C38: once what func threw has left runInContext there is no active
\* context and no current lifecycle hook.
C38_ThrowClearsContext ==
  ThrewInRunInContext => (ctx = NoCtx /\ lifecycle = NoPhase)

\* the teardown of an invalidation entry is in one of the cleanup Sets
InBucket(e) ==
  \E b \in Buckets : \E k \in 1 .. Len(cleanup[b]) : cleanup[b][k] = e.teardown

\* C37: while the host lives, every invalidation entry whose run returned a
\* teardown belongs to a run whose teardown has not been released and is in
\* one of the host's cleanup Sets (so no entry outlives the flush of its
\* bucket, and an effect torn down by a flush is not run again).
C37_EntriesAreLive ==
  stage = "live" =>
    \A i \in 1 .. Len(invalidations) :
      invalidations[i].teardown > 0 =>
        (Held(invalidations[i]) /\ InBucket(invalidations[i]))

\* a hook or an effect of an OnChanges firing has thrown
ThrewIn(ph) == \E i \in Idx : log[i].k = "throw" /\ log[i].via = "Error" /\ log[i].ph = ph
\* the step has called hook h in a firing of ph
HookedInStep(h, ph) ==
  \E j \in (Len(log) + 1) .. Len(log') :
    log'[j].k = "hook" /\ log'[j].ph = ph /\ log'[j].cb = h

\* C36: after a hook of an OnChanges firing has thrown, a later DoCheck of
\* the living host that finds a property changed still fires OnChanges and
\* calls every onChanges hook.
C36_BusUsableAfterThrow ==
  [][(IsCheckStep /\ stage = "live" /\ ThrewIn(OnChanges) /\ HasChanges(St))
       => \A n \in 1 .. Len(hooks[OnChanges]) : HookedInStep(hooks[OnChanges][n], OnChanges)]_vars

\* the calls of onChanges hook h since the last external trigger
ChangesCallsOf(h) ==
  {j \in LastSeg : log[j].k = "hook" /\ log[j].ph = OnChanges /\ log[j].cb = h}

\* C39: every external trigger returns after finitely many hook and effect
\* executions although callbacks write through the reactive view: the nested
\* DoCheck passes a write starts never use up the call stack, and one
\* trigger calls an onChanges hook fewer times than the stack holds passes.
C39_TriggerTerminates ==
  /\ \A i \in Idx : log[i].k # "overflow"
  /\ \A n \in 1 .. Len(hooks[OnChanges]) :
       Cardinality(ChangesCallsOf(hooks[OnChanges][n])) <= MaxNesting

====
